---------------------------- MODULE Spec2Model ----------------------------
(***************************************************************************)
(* Ledger screens of gssteel-grihasajjwa: the balance and interest         *)
(* arithmetic of MahajanDetails and BillReminders, the aggregation and the  *)
(* cache of MahajanSummary, and the sale payment dialog                    *)
(* (RecordSalePaymentDialog).                                              *)
(*                                                                         *)
(* Conventions.                                                            *)
(*  - JS numbers are taken as exact rationals (binary floating point     *)
(*    error is not modelled).  An amount stored in a table is a whole      *)
(*    number of rupees.  An amount the code rounds to 2 decimals is its    *)
(*    number of hundredths (Cents to the rupee).  An amount BillReminders  *)
(*    computes without rounding is its numerator over InterestDen.         *)
(*  - A calendar date 'YYYY-MM-DD' is its day number since 1970-01-01;     *)
(*    an instant (Date.getTime()) is a number of ticks, TicksPerDay ticks  *)
(*    to the day, so that new Date('YYYY-MM-DD') is day * TicksPerDay.     *)
(*  - The local time zone is taken to be UTC.                              *)
(*  - A nullable number is <<>> (null) or <<n>>; a null interest_type is   *)
(*    the string NullType.                                                 *)
(***************************************************************************)
EXTENDS Integers, Sequences, FiniteSets, TLC

VARIABLES
    db_bills,             \* table bills (rows of one mahajan of one user)
    db_bill_transactions, \* table bill_transactions
    now,                  \* the wall clock, in ticks
    screen,               \* the mounted screen: "home", "details", "reminders", "mahajans", "summary", "customers"
    bills,                \* MahajanDetails state: bills
    transactions,         \* MahajanDetails state: transactions
    rendered,             \* MahajanDetails: what the last render displayed
    selectedDate,         \* BillReminders state: selectedDate (an instant; 0 while unmounted)
    reminders,            \* BillReminders state: reminders
    selectedBillForDueDate, \* BillReminders state: the id of the bill of the due date dialog, or null
    newDueDate,           \* BillReminders state: newDueDate ('' is null)
    toast,                \* the last notification of the ledger screens ("" when the last step raised none)
    db_mahajans,          \* table mahajans (the ids of the rows of one user)
    summaryData,          \* MahajanSummary state: summaryData
    cache,                \* MahajanSummary state: cache, a function on its keys
    dateFrom,             \* MahajanSummary state: dateFrom ('' is null)
    dateTo,               \* MahajanSummary state: dateTo ('' is null)
    billStatusFilter,     \* MahajanSummary state: billStatusFilter
    loading,              \* state loading of the page in use
    fetches,              \* the requests of the page in use that are in flight (MahajanSummary: their keys)
    db_sales,             \* table sales (rows of one customer)
    db_sale_transactions, \* table sale_transactions
    outstanding_amount,   \* bill_customers.outstanding_amount of the customer
    dialog,               \* RecordSalePaymentDialog of each session: mounted, open, sales, toast
    submit,               \* RecordSalePaymentDialog.onSubmit of each session: its position
    showPaymentDialog,    \* MahajanDetails state: showPaymentDialog
    selectedBillId,       \* MahajanDetails state: selectedBillId ('' is null)
    paymentData,          \* MahajanDetails state: paymentData (amount as typed, paymentType)
    db_cheques,           \* table cheques (rows of one user)
    receivedCheques,      \* Cheques state: receivedCheques
    issuedCheques,        \* Cheques state: issuedCheques
    selectedCheque,       \* Cheques state: selectedCheque (the row as it was listed)
    editDialogOpen,       \* Cheques state: editDialogOpen
    deleteDialogOpen,     \* Cheques state: deleteDialogOpen
    settings_access_password, \* table settings_access_password
    profiles,             \* table profiles
    script                \* fix_password_table.sql: the statement it has reached

ledgerVars == <<db_bills, db_bill_transactions, now, screen, bills,
                transactions, rendered, selectedDate, reminders,
                selectedBillForDueDate, newDueDate, toast>>
saleVars == <<db_sales, db_sale_transactions, outstanding_amount, dialog, submit>>
summaryVars == <<db_mahajans, summaryData, cache, dateFrom, dateTo,
                 billStatusFilter, loading, fetches>>
paymentVars == <<showPaymentDialog, selectedBillId, paymentData>>
chequeVars == <<db_cheques, receivedCheques, issuedCheques, selectedCheque,
                editDialogOpen, deleteDialogOpen>>
scriptVars == <<settings_access_password, profiles, script>>
\* the state of the payment dialog, of the Cheques page and of the script
otherVars == <<paymentVars, chequeVars, scriptVars>>
vars == <<db_bills, db_bill_transactions, now, screen, bills, transactions,
          rendered, selectedDate, reminders, selectedBillForDueDate, newDueDate,
          toast, db_sales, db_sale_transactions, outstanding_amount, dialog,
          submit, db_mahajans, summaryData, cache, dateFrom, dateTo,
          billStatusFilter, loading, fetches, showPaymentDialog, selectedBillId,
          paymentData, db_cheques, receivedCheques, issuedCheques, selectedCheque,
          editDialogOpen, deleteDialogOpen, settings_access_password, profiles,
          script>>

----------------------------------------------------------------------------
(* Bounds of the model *)

\* ticks of the clock per day
TicksPerDay == 2
\* rows of bill_transactions
MaxTx == 2
\* rows of sale_transactions
MaxSaleTx == 3
\* entries of the MahajanSummary cache, those of the queries in flight included
MaxCache == 2
\* calls of fetchReminders or fetchCheques in flight at once
MaxFetches == 2

(* Program constants *)

DaysPerYear == 365
PercentBase == 100
DaysPerMonth == 30
MonthsPerYear == 12
Cents == 100

----------------------------------------------------------------------------
(* JavaScript values *)

Null == <<>>
Some(x) == <<x>>
IsNull(o) == o = <<>>
Val(o) == o[1]
NullType == "<null>"

\* !x for a nullable number: null and 0 are falsy
JsFalsy(o) == IsNull(o) \/ Val(o) = 0
\* x > 0 for a nullable number: null > 0 is false
JsPositive(o) == ~IsNull(o) /\ Val(o) > 0
\* x in arithmetic: null converts to 0
JsNum(o) == IF IsNull(o) THEN 0 ELSE Val(o)

Max(a, b) == IF a >= b THEN a ELSE b

\* Math.floor(n / d) and Math.ceil(n / d), d > 0
Floor(n, d) == n \div d
Ceil(n, d) == -((-n) \div d)
\* Math.round(n / d), d > 0: the nearest integer, a half rounded towards +infinity
Round(n, d) == (2 * n + d) \div (2 * d)

\* an insert that writes over the last row of the table
Insert_OverLast(table, row) ==
    IF table = <<>> THEN <<row>> ELSE Append(SubSeq(table, 1, Len(table) - 1), row)

\* supabase.from(table).insert(row) that succeeds: one row more, at the end
Insert(table, row) == Append(table, row)

(* parseFloat: a text is the sequence of its characters, NaN is null *)

NaN == <<>>
isNaN(x) == IsNull(x)

DigitValue(c) ==
    CASE c = "0" -> 0 [] c = "1" -> 1 [] c = "2" -> 2 [] c = "3" -> 3 [] c = "4" -> 4
      [] c = "5" -> 5 [] c = "6" -> 6 [] c = "7" -> 7 [] c = "8" -> 8 [] c = "9" -> 9

IsDigit(c) == c \in {"0", "1", "2", "3", "4", "5", "6", "7", "8", "9"}

RECURSIVE LeadingDigits(_)
\* the longest prefix of digits
LeadingDigits(text) ==
    IF text = <<>> \/ ~IsDigit(text[1]) THEN <<>>
    ELSE <<text[1]>> \o LeadingDigits(Tail(text))

RECURSIVE DigitsValue(_)
DigitsValue(digits) ==
    IF digits = <<>> THEN 0
    ELSE DigitsValue(SubSeq(digits, 1, Len(digits) - 1)) * 10
         + DigitValue(digits[Len(digits)])

\* parseFloat of a text without a decimal point: an optional sign, then the
\* leading digits; NaN when there is no digit
parseFloat(text) ==
    LET negative == text # <<>> /\ text[1] = "-"
        signed == text # <<>> /\ text[1] \in {"-", "+"}
        digits == LeadingDigits(IF signed THEN Tail(text) ELSE text)
    IN  IF digits = <<>> THEN NaN
        ELSE Some(IF negative THEN -DigitsValue(digits) ELSE DigitsValue(digits))

(* Date: the proleptic Gregorian calendar *)

\* new Date('YYYY-MM-DD').getTime() in days
DaysFromCivil(y, m, d) ==
    LET yy == IF m <= 2 THEN y - 1 ELSE y
        era == yy \div 400
        yoe == yy - era * 400
        mp == IF m > 2 THEN m - 3 ELSE m + 9
        doy == (153 * mp + 2) \div 5 + d - 1
        doe == yoe * 365 + yoe \div 4 - yoe \div 100 + doy
    IN  era * 146097 + doe - 719468

\* the calendar fields of a day number: [y, m (1..12), d]
CivilFromDays(z0) ==
    LET z == z0 + 719468
        era == z \div 146097
        doe == z - era * 146097
        yoe == (doe - doe \div 1460 + doe \div 36524 - doe \div 146096) \div 365
        doy == doe - (365 * yoe + yoe \div 4 - yoe \div 100)
        mp == (5 * doy + 2) \div 153
        d == doy - (153 * mp + 2) \div 5 + 1
        m == IF mp < 10 THEN mp + 3 ELSE mp - 9
        y == yoe + era * 400 + (IF m <= 2 THEN 1 ELSE 0)
    IN  [y |-> y, m |-> m, d |-> d]

\* new Date(dateString).getTime(), in ticks
DateTime(day) == day * TicksPerDay
\* the day an instant falls on
DayOf(t) == Floor(t, TicksPerDay)
getFullYear(t) == CivilFromDays(DayOf(t)).y
\* getMonth() counts from 0
getMonth(t) == CivilFromDays(DayOf(t)).m - 1
getDate(t) == CivilFromDays(DayOf(t)).d


----------------------------------------------------------------------------
(* MahajanDetails *)

RECURSIVE SumAmounts(_)
\* rows.reduce((sum, t) => sum + t.amount, 0)
SumAmounts(rows) ==
    IF rows = <<>> THEN 0 ELSE rows[1].amount + SumAmounts(Tail(rows))

\* bills.find(b => b.id === billId): the first such bill, <<>> when there is none
FindBill(bs, billId) ==
    LET hits == SelectSeq(bs, LAMBDA b : b.id = billId)
    IN  IF hits = <<>> THEN <<>> ELSE <<hits[1]>>

calculateBillBalance(bs, txs, billId) ==
    LET billTransactions == SelectSeq(txs, LAMBDA t : t.bill_id = billId)
        totalPaid == SumAmounts(billTransactions)
        bill == FindBill(bs, billId)
    IN  IF bill # <<>> THEN bill[1].bill_amount - totalPaid ELSE 0

\* calculateInterest with a final else in place of else-if 'monthly'
calculateInterest_ElseMonthly(bill, balance, t) ==
    IF JsFalsy(bill.interest_rate) \/ bill.interest_type = "none" THEN 0
    ELSE
      LET rate == Val(bill.interest_rate)
          startDate == DateTime(bill.bill_date)
          endDate == t
          daysDiff == Ceil(endDate - startDate, TicksPerDay)
          months == (getFullYear(endDate) - getFullYear(startDate)) * MonthsPerYear
                    + (getMonth(endDate) - getMonth(startDate))
          dayDelta == getDate(endDate) - getDate(startDate)
      IN  IF bill.interest_type = "daily"
            THEN Round(balance * rate * daysDiff * Cents, PercentBase * DaysPerYear)
          ELSE Round(balance * rate * (months * DaysPerMonth + dayDelta) * Cents,
                     PercentBase * DaysPerMonth)

\* calculateInterest with Math.floor in place of Math.ceil
calculateInterest_FloorDays(bill, balance, t) ==
    IF JsFalsy(bill.interest_rate) \/ bill.interest_type = "none" THEN 0
    ELSE
      LET rate == Val(bill.interest_rate)
          startDate == DateTime(bill.bill_date)
          endDate == t
          daysDiff == Floor(endDate - startDate, TicksPerDay)
          months == (getFullYear(endDate) - getFullYear(startDate)) * MonthsPerYear
                    + (getMonth(endDate) - getMonth(startDate))
          dayDelta == getDate(endDate) - getDate(startDate)
      IN  IF bill.interest_type = "daily"
            THEN Round(balance * rate * daysDiff * Cents, PercentBase * DaysPerYear)
          ELSE IF bill.interest_type = "monthly"
            THEN Round(balance * rate * (months * DaysPerMonth + dayDelta) * Cents,
                       PercentBase * DaysPerMonth)
          ELSE Round(0, 1)

\* calculateInterest without the year difference in months
calculateInterest_NoYears(bill, balance, t) ==
    IF JsFalsy(bill.interest_rate) \/ bill.interest_type = "none" THEN 0
    ELSE
      LET rate == Val(bill.interest_rate)
          startDate == DateTime(bill.bill_date)
          endDate == t
          daysDiff == Ceil(endDate - startDate, TicksPerDay)
          months == getMonth(endDate) - getMonth(startDate)
          dayDelta == getDate(endDate) - getDate(startDate)
      IN  IF bill.interest_type = "daily"
            THEN Round(balance * rate * daysDiff * Cents, PercentBase * DaysPerYear)
          ELSE IF bill.interest_type = "monthly"
            THEN Round(balance * rate * (months * DaysPerMonth + dayDelta) * Cents,
                       PercentBase * DaysPerMonth)
          ELSE Round(0, 1)

\* t is the value of new Date() when the function runs; the result is in
\* hundredths: Math.round(interest * 100) / 100
calculateInterest(bill, balance, t) ==
    IF JsFalsy(bill.interest_rate) \/ bill.interest_type = "none" THEN 0
    ELSE
      LET rate == Val(bill.interest_rate)   \* the code divides it by 100
          startDate == DateTime(bill.bill_date)
          endDate == t
          daysDiff == Ceil(endDate - startDate, TicksPerDay)
          months == (getFullYear(endDate) - getFullYear(startDate)) * MonthsPerYear
                    + (getMonth(endDate) - getMonth(startDate))
          dayDelta == getDate(endDate) - getDate(startDate)
      IN  IF bill.interest_type = "daily"
            THEN Round(balance * rate * daysDiff * Cents, PercentBase * DaysPerYear)
          ELSE IF bill.interest_type = "monthly"
            THEN Round(balance * rate * (months * DaysPerMonth + dayDelta) * Cents,
                       PercentBase * DaysPerMonth)
          ELSE Round(0, 1)

RECURSIVE calculateTotalOutstandingFrom(_, _, _, _)
\* bills.reduce(...) over the bills rest; the sum is in hundredths
calculateTotalOutstandingFrom(rest, bs, txs, t) ==
    IF rest = <<>> THEN 0
    ELSE LET bill == rest[Len(rest)]
             sum == calculateTotalOutstandingFrom(SubSeq(rest, 1, Len(rest) - 1), bs, txs, t)
         IN  IF ~bill.is_active THEN sum
             ELSE LET balance == calculateBillBalance(bs, txs, bill.id)
                      interest == calculateInterest(bill, balance, t)
                  IN  sum + balance * Cents + interest

calculateTotalOutstanding(bs, txs, t) == calculateTotalOutstandingFrom(bs, bs, txs, t)

RECURSIVE SortByBillDateDesc(_)
\* .order('bill_date', { ascending: false }), rows of equal date in table order
SortByBillDateDesc(rows) ==
    IF rows = <<>> THEN <<>>
    ELSE LET first == CHOOSE i \in 1..Len(rows) :
                        \A j \in 1..Len(rows) :
                           \/ rows[i].bill_date > rows[j].bill_date
                           \/ (rows[i].bill_date = rows[j].bill_date /\ i <= j)
         IN  <<rows[first]>> \o
             SortByBillDateDesc(SubSeq(rows, 1, first - 1) \o SubSeq(rows, first + 1, Len(rows)))

\* what fetchBills stores in bills: the table holds the rows of this mahajan
fetchBills(table) == SortByBillDateDesc(table)

\* what fetchTransactions stores in transactions (it runs when bills is not
\* empty; the rows carry no payment_date here and keep the table's order)
fetchTransactions(table, bs) ==
    IF Len(bs) > 0
      THEN SelectSeq(table, LAMBDA t : \E i \in 1..Len(bs) : bs[i].id = t.bill_id)
      ELSE <<>>

\* the bill rows and the total a render of the component displays at time t
Render(bs, txs, t) ==
    [ rows |-> [ i \in 1..Len(bs) |->
                   LET balance == calculateBillBalance(bs, txs, bs[i].id)
                   IN  [ id |-> bs[i].id,
                         balance |-> balance,
                         interest |-> calculateInterest(bs[i], balance, t) ] ],
      total |-> calculateTotalOutstanding(bs, txs, t) ]

NotRendered == [ rows |-> <<>>, total |-> 0 ]

----------------------------------------------------------------------------
(* BillReminders *)

\* an amount that carries unrounded interest is its numerator over InterestDen
InterestDen == PercentBase * DaysPerYear

RECURSIVE SortByDueDate(_)
\* .order('due_date', { ascending: true }), rows of equal date in table order
SortByDueDate(rows) ==
    IF rows = <<>> THEN <<>>
    ELSE LET least == CHOOSE i \in 1..Len(rows) :
                        \A j \in 1..Len(rows) :
                           \/ Val(rows[i].due_date) < Val(rows[j].due_date)
                           \/ (Val(rows[i].due_date) = Val(rows[j].due_date) /\ i <= j)
         IN  <<rows[least]>> \o
             SortByDueDate(SubSeq(rows, 1, least - 1) \o SubSeq(rows, least + 1, Len(rows)))

\* the bills query: active, with a due date on or before dateStr
QueryDueBills(table, dateStr) ==
    SortByDueDate(SelectSeq(table, LAMBDA b :
        b.is_active /\ ~IsNull(b.due_date) /\ Val(b.due_date) <= dateStr))

ReminderTotalPaid(txs, billId) ==
    SumAmounts(SelectSeq(txs, LAMBDA tx :
        tx.bill_id = billId
        /\ (tx.transaction_type = "payment" \/ tx.transaction_type = "principal")))

ReminderTotalInterestPaid(txs, billId) ==
    SumAmounts(SelectSeq(txs, LAMBDA tx :
        tx.bill_id = billId /\ tx.transaction_type = "interest"))

ReminderBalance(bill, txs) == bill.bill_amount - ReminderTotalPaid(txs, bill.id)

ReminderDaysSinceDue(bill, dateStr) ==
    Max(0, Floor(DateTime(dateStr) - DateTime(Val(bill.due_date)), TicksPerDay))

\* the local variable interest, as a numerator over InterestDen
ReminderInterest(bill, balance, dateStr) ==
    IF bill.interest_type = "simple" /\ JsPositive(bill.interest_rate)
      THEN balance * Val(bill.interest_rate) * ReminderDaysSinceDue(bill, dateStr)
    ELSE IF bill.interest_type = "flat" /\ JsPositive(bill.interest_rate)
      THEN balance * Val(bill.interest_rate) * DaysPerYear
    ELSE 0

\* ReminderAmountDue without Math.max(0, ...): excess interest payments count
ReminderAmountDue_NoClamp(bill, txs, dateStr) ==
    LET balance == ReminderBalance(bill, txs)
        interest == ReminderInterest(bill, balance, dateStr)
    IN  balance * InterestDen
        + (interest - ReminderTotalInterestPaid(txs, bill.id) * InterestDen)

\* amountDue, as a numerator over InterestDen
ReminderAmountDue(bill, txs, dateStr) ==
    LET balance == ReminderBalance(bill, txs)
        interest == ReminderInterest(bill, balance, dateStr)
    IN  balance * InterestDen
        + Max(0, interest - ReminderTotalInterestPaid(txs, bill.id) * InterestDen)

ReminderRow(bill, txs, dateStr) ==
    [ id |-> bill.id,
      bill_amount |-> bill.bill_amount,
      due_date |-> Val(bill.due_date),
      bill_date |-> bill.bill_date,
      interest_rate |-> JsNum(bill.interest_rate),
      interest_type |-> IF bill.interest_type = NullType THEN "none" ELSE bill.interest_type,
      amount_due |-> ReminderAmountDue(bill, txs, dateStr),
      outstanding_balance |-> ReminderBalance(bill, txs) ]

RECURSIVE RemindersOf(_, _, _)
RemindersOf(due, txs, dateStr) ==
    IF due = <<>> THEN <<>>
    ELSE (IF ReminderBalance(due[1], txs) > 0
            THEN <<ReminderRow(due[1], txs, dateStr)>> ELSE <<>>)
         \o RemindersOf(Tail(due), txs, dateStr)

\* what fetchReminders stores in reminders when every query succeeds
fetchReminders(table, txs, selected) ==
    LET dateStr == DayOf(selected)
    IN  RemindersOf(QueryDueBills(table, dateStr), txs, dateStr)

\* totalDue and totalOutstanding of the summary cards, totalDue as a
\* numerator over InterestDen
RECURSIVE remindersTotalDue(_)
remindersTotalDue(rows) ==
    IF rows = <<>> THEN 0 ELSE rows[1].amount_due + remindersTotalDue(Tail(rows))

RECURSIVE remindersTotalOutstanding(_)
remindersTotalOutstanding(rows) ==
    IF rows = <<>> THEN 0
    ELSE rows[1].outstanding_balance + remindersTotalOutstanding(Tail(rows))

----------------------------------------------------------------------------
(* MahajanSummary *)

\* new Map()
EmptyCache == <<>>

\* a || b for a date string: '' and undefined are falsy
JsOr(a, b) == IF IsNull(a) THEN b ELSE a

\* the status filters of the select
StatusFilters == {"all", "active", "closed"}

\* new Date(y, m, 1) and new Date(y, m + 1, 0) of the month of t, as
\* toISOString().split('T')[0] gives them
FirstDayOfMonth(t) == DaysFromCivil(getFullYear(t), getMonth(t) + 1, 1)
LastDayOfMonth(t) ==
    LET y == getFullYear(t)
        m == getMonth(t) + 1
    IN  (IF m = 12 THEN DaysFromCivil(y + 1, 1, 1) ELSE DaysFromCivil(y, m + 1, 1)) - 1

\* `${startDate}-${endDate}-${filter}`: dates have a fixed width, so the
\* string determines its three parts
CacheKey(startDate, endDate, filter) == <<startDate, endDate, filter>>

\* bills!inner(...) of one mahajan, with the status filter on the embedded bills
EmbeddedBills(billsTable, txTable, mahajanId, filter) ==
    LET rows == SelectSeq(billsTable, LAMBDA b :
                   /\ b.mahajan_id = mahajanId
                   /\ (filter = "active" => b.is_active)
                   /\ (filter = "closed" => ~b.is_active))
    IN  [ i \in 1..Len(rows) |->
            [ id |-> rows[i].id,
              bill_amount |-> rows[i].bill_amount,
              is_active |-> rows[i].is_active,
              bill_transactions |->
                 SelectSeq(txTable, LAMBDA t : t.bill_id = rows[i].id) ] ]

\* QuerySummary with a left join in place of the inner join
QuerySummary_LeftJoin(mahajans, billsTable, txTable, filter) ==
    [ i \in 1..Len(mahajans) |->
        [ id |-> mahajans[i],
          bills |-> EmbeddedBills(billsTable, txTable, mahajans[i], filter) ] ]

\* the rows of the query: an inner join keeps the mahajans with a bill only
QuerySummary(mahajans, billsTable, txTable, filter) ==
    LET all == [ i \in 1..Len(mahajans) |->
                   [ id |-> mahajans[i],
                     bills |-> EmbeddedBills(billsTable, txTable, mahajans[i], filter) ] ]
    IN  SelectSeq(all, LAMBDA m : Len(m.bills) > 0)

RECURSIVE FlatTransactions(_)
\* bills.flatMap(bill => bill.bill_transactions || [])
FlatTransactions(bs) ==
    IF bs = <<>> THEN <<>> ELSE bs[1].bill_transactions \o FlatTransactions(Tail(bs))

RECURSIVE SumBillAmounts(_)
SumBillAmounts(bs) ==
    IF bs = <<>> THEN 0 ELSE bs[1].bill_amount + SumBillAmounts(Tail(bs))

\* allTransactions.sort(by payment_date, descending)[0].payment_date
LatestPaymentDate(txs) ==
    CHOOSE d \in {txs[i].payment_date : i \in 1..Len(txs)} :
      \A i \in 1..Len(txs) : txs[i].payment_date <= d

\* the row of one mahajan (the map of fetchSummaryData); avg_payment_amount
\* is a fraction <<numerator, denominator>>
SummaryRow(mahajan) ==
    LET allTransactions == FlatTransactions(mahajan.bills)
        totalBillAmount == SumBillAmounts(mahajan.bills)
        totalPaidAmount == SumAmounts(allTransactions)
    IN  [ mahajan_id |-> mahajan.id,
          total_bills |-> Len(mahajan.bills),
          active_bills |-> Len(SelectSeq(mahajan.bills, LAMBDA b : b.is_active)),
          total_bill_amount |-> totalBillAmount,
          total_paid_amount |-> totalPaidAmount,
          outstanding_balance |-> totalBillAmount - totalPaidAmount,
          last_payment_date |-> IF Len(allTransactions) > 0
                                  THEN Some(LatestPaymentDate(allTransactions))
                                  ELSE Null,
          avg_payment_amount |-> IF Len(allTransactions) > 0
                                   THEN <<totalPaidAmount, Len(allTransactions)>>
                                   ELSE <<0, 1>>,
          payment_frequency |-> Len(allTransactions) ]

processedData(data) == [ i \in 1..Len(data) |-> SummaryRow(data[i]) ]

\* filteredData that leaves out a last payment made on the start date
filteredData_AfterStart(processed, startDate, endDate) ==
    IF ~IsNull(startDate) /\ ~IsNull(endDate)
      THEN SelectSeq(processed, LAMBDA r :
             /\ ~IsNull(r.last_payment_date)
             /\ Val(r.last_payment_date) > Val(startDate)
             /\ Val(r.last_payment_date) <= Val(endDate))
      ELSE processed

\* the filter by date range, applied when both dates are set
filteredData(processed, startDate, endDate) ==
    IF ~IsNull(startDate) /\ ~IsNull(endDate)
      THEN SelectSeq(processed, LAMBDA r :
             /\ ~IsNull(r.last_payment_date)
             /\ Val(r.last_payment_date) >= Val(startDate)
             /\ Val(r.last_payment_date) <= Val(endDate))
      ELSE processed

\* what a successful query of fetchSummaryData under key stores and shows
SummaryResult(mahajans, billsTable, txTable, key) ==
    filteredData(processedData(QuerySummary(mahajans, billsTable, txTable, key[3])),
                 key[1], key[2])

\* totalStats
totalStats(data) ==
    IF data = <<>>
      THEN [totalBills |-> 0, activeBills |-> 0, totalBillAmount |-> 0,
            totalPaidAmount |-> 0, outstandingBalance |-> 0]
      ELSE LET RECURSIVE Acc(_)
               Acc(n) ==
                 IF n = 0
                   THEN [totalBills |-> 0, activeBills |-> 0, totalBillAmount |-> 0,
                         totalPaidAmount |-> 0, outstandingBalance |-> 0]
                   ELSE LET acc == Acc(n - 1)
                        IN  [totalBills |-> acc.totalBills + data[n].total_bills,
                             activeBills |-> acc.activeBills + data[n].active_bills,
                             totalBillAmount |-> acc.totalBillAmount + data[n].total_bill_amount,
                             totalPaidAmount |-> acc.totalPaidAmount + data[n].total_paid_amount,
                             outstandingBalance |->
                                acc.outstandingBalance + data[n].outstanding_balance]
           IN  Acc(Len(data))

----------------------------------------------------------------------------
(* RecordSalePaymentDialog *)

Sessions == {1, 2}

DialogUnmounted == [mounted |-> FALSE, open |-> FALSE, sales |-> <<>>, toast |-> ""]
SubmitIdle == [pc |-> "idle", allSalesData |-> <<>>, allTransData |-> <<>>,
               concurrent |-> FALSE, failed |-> FALSE]

\* the sales query of fetchCustomerSales and of onSubmit: the active sales of
\* the customer (the rows carry no sale_date here and keep the table's order)
QueryActiveSales(table) == SelectSeq(table, LAMBDA sale : sale.is_active)

\* .in('sale_id', saleIds)
QuerySaleTransactions(table, salesData) ==
    SelectSeq(table, LAMBDA t : \E i \in 1..Len(salesData) : salesData[i].id = t.sale_id)

\* salesData.map(...) of fetchCustomerSales
salesWithOutstanding(salesData, transData) ==
    [ i \in 1..Len(salesData) |->
        LET sale == salesData[i]
            trans == SelectSeq(transData, LAMBDA t : t.sale_id = sale.id)
            totalPaid == SumAmounts(SelectSeq(trans, LAMBDA t : t.transaction_type = "payment"))
            totalRefund == SumAmounts(SelectSeq(trans, LAMBDA t : t.transaction_type = "refund"))
        IN  [ id |-> sale.id,
              sale_amount |-> sale.sale_amount,
              outstanding |-> sale.sale_amount - totalPaid + totalRefund ] ]

\* what fetchCustomerSales stores in sales; when the customer has no active
\* sale the state is left as it is
fetchCustomerSales(salesTable, transTable, old) ==
    LET salesData == QueryActiveSales(salesTable)
        transData == QuerySaleTransactions(transTable, salesData)
    IN  IF Len(salesData) > 0
          THEN SelectSeq(salesWithOutstanding(salesData, transData),
                         LAMBDA r : r.outstanding > 0)
          ELSE old

RECURSIVE totalOutstanding_RefundsIgnored(_, _)
\* totalOutstanding without the refunds added back
totalOutstanding_RefundsIgnored(allSalesData, allTransData) ==
    IF allSalesData = <<>> THEN 0
    ELSE LET sale == allSalesData[1]
             trans == SelectSeq(allTransData, LAMBDA t : t.sale_id = sale.id)
             totalPaid == SumAmounts(SelectSeq(trans, LAMBDA t : t.transaction_type = "payment"))
         IN  (sale.sale_amount - totalPaid)
             + totalOutstanding_RefundsIgnored(Tail(allSalesData), allTransData)

RECURSIVE totalOutstanding(_, _)
\* allSalesData.forEach(...) of onSubmit
totalOutstanding(allSalesData, allTransData) ==
    IF allSalesData = <<>> THEN 0
    ELSE LET sale == allSalesData[1]
             trans == SelectSeq(allTransData, LAMBDA t : t.sale_id = sale.id)
             totalPaid == SumAmounts(SelectSeq(trans, LAMBDA t : t.transaction_type = "payment"))
             totalRefund == SumAmounts(SelectSeq(trans, LAMBDA t : t.transaction_type = "refund"))
         IN  (sale.sale_amount - totalPaid + totalRefund)
             + totalOutstanding(Tail(allSalesData), allTransData)

\* sales.find(s => s.id === data.sale_id)
FindSale(list, saleId) ==
    LET hits == SelectSeq(list, LAMBDA r : r.id = saleId)
    IN  IF hits = <<>> THEN <<>> ELSE <<hits[1]>>

----------------------------------------------------------------------------
(* The inputs the model draws from *)

BillAmounts == {500, 1000}
InterestRates == {Null, Some(0), Some(12), Some(24)}
InterestTypes == {NullType, "none", "daily", "monthly", "simple", "flat", "compound"}
BillDates == {DaysFromCivil(2024, 1, 1), DaysFromCivil(2024, 1, 31)}
DueDates == {DaysFromCivil(2024, 1, 1), DaysFromCivil(2024, 1, 31)}
ClockDays == {DaysFromCivil(2023, 12, 31), DaysFromCivil(2024, 1, 1), DaysFromCivil(2024, 4, 1)}
ClockTimes == {DateTime(d) + f : d \in ClockDays, f \in 0..(TicksPerDay - 1)}
PaymentAmounts == {400}
\* what the amount field of a payment form may hold when it is submitted
AmountTexts == { <<>>, <<"a", "b", "c">>, <<"0">>, <<"-", "4", "0", "0">>,
                 <<"4", "0", "0">> }
\* the amounts typed into the sale payment form
SaleAmountTexts == { <<"4", "0", "0">> }
\* paymentData as useState creates it and as a recorded payment resets it
BlankPaymentData == [amount |-> <<>>, paymentType |-> "principal"]

\* the payment types of the MahajanDetails form
PaymentTypes == {"principal", "interest", "mixed"}

BillRows ==
    [ id : {1},
      bill_amount : BillAmounts,
      interest_rate : InterestRates,
      interest_type : InterestTypes,
      bill_date : BillDates,
      due_date : {Null} \cup {Some(d) : d \in DueDates},
      is_active : BOOLEAN ]

TransactionRow(billId, amount, type) ==
    [ bill_id |-> billId, amount |-> amount, transaction_type |-> type ]

InitLedger ==
    /\ db_bills \in {<<b>> : b \in BillRows}
    /\ db_bill_transactions \in
         {<<>>} \cup {<<TransactionRow(1, a, "payment")>> : a \in PaymentAmounts}
    /\ now \in ClockTimes
    /\ screen = "home"
    /\ showPaymentDialog = FALSE
    /\ selectedBillId = Null
    /\ paymentData = BlankPaymentData
    /\ db_cheques = <<>>
    /\ receivedCheques = <<>>
    /\ issuedCheques = <<>>
    /\ selectedCheque = Null
    /\ editDialogOpen = FALSE
    /\ deleteDialogOpen = FALSE
    /\ settings_access_password = <<>>
    /\ profiles = <<>>
    /\ script = "idle"
    /\ bills = <<>>
    /\ transactions = <<>>
    /\ rendered = NotRendered
    /\ selectedDate = 0
    /\ reminders = <<>>
    /\ selectedBillForDueDate = Null
    /\ newDueDate = Null
    /\ toast = ""
    /\ db_sales = <<>>
    /\ db_sale_transactions = <<>>
    /\ outstanding_amount = 0
    /\ dialog = [s \in Sessions |-> DialogUnmounted]
    /\ submit = [s \in Sessions |-> SubmitIdle]
    /\ db_mahajans = <<>>
    /\ summaryData = <<>>
    /\ cache = EmptyCache
    /\ dateFrom = Null
    /\ dateTo = Null
    /\ billStatusFilter = "all"
    /\ loading = TRUE
    /\ fetches = <<>>

----------------------------------------------------------------------------
(* The actions of the ledger screens *)

\* time passes
Tick ==
    /\ \E t \in ClockTimes : t > now /\ now' = t
    /\ UNCHANGED <<db_bills, db_bill_transactions, screen, bills, transactions,
                   rendered, selectedDate, reminders, selectedBillForDueDate,
                   newDueDate, toast>>
    /\ UNCHANGED saleVars
    /\ UNCHANGED otherVars
    /\ UNCHANGED summaryVars

\* MahajanDetails mounts: fetchBills, then fetchTransactions, then a render
OpenDetails ==
    /\ screen = "home"
    /\ screen' = "details"
    /\ bills' = fetchBills(db_bills)
    /\ transactions' = fetchTransactions(db_bill_transactions, bills')
    /\ rendered' = Render(bills', transactions', now)
    /\ UNCHANGED <<db_bills, db_bill_transactions, now, selectedDate, reminders,
                   selectedBillForDueDate, newDueDate, toast>>
    /\ UNCHANGED saleVars
    /\ UNCHANGED otherVars
    /\ UNCHANGED summaryVars

\* MahajanDetails renders again (any state change of the page)
Rerender ==
    /\ screen = "details"
    /\ rendered' = Render(bills, transactions, now)
    /\ rendered' # rendered
    /\ UNCHANGED <<db_bills, db_bill_transactions, now, screen, bills,
                   transactions, selectedDate, reminders, selectedBillForDueDate,
                   newDueDate, toast>>
    /\ UNCHANGED saleVars
    /\ UNCHANGED otherVars
    /\ UNCHANGED summaryVars

\* handlePaymentSubmit for a selected bill, the text of the amount field and
\* a payment type: without a selection it returns; an amount that is not a
\* number or is not positive is refused; the insert succeeds (the
\* transactions are fetched again) or fails.  Its notifications are not kept.
handlePaymentSubmit ==
    /\ screen = "details"
    /\ \E billId \in {Null} \cup {Some(bills[i].id) : i \in 1..Len(bills)},
          text \in AmountTexts :
         LET amount == parseFloat(text)
         IN  IF IsNull(billId)
               THEN UNCHANGED <<db_bill_transactions, transactions, rendered>>
             ELSE IF isNaN(amount) \/ Val(amount) <= 0
               THEN UNCHANGED <<db_bill_transactions, transactions, rendered>>
             ELSE \E type \in PaymentTypes, inserted \in BOOLEAN :
                    IF inserted
                      THEN /\ Len(db_bill_transactions) < MaxTx
                           /\ db_bill_transactions' =
                                Insert(db_bill_transactions,
                                       TransactionRow(Val(billId), Val(amount), type))
                           /\ transactions' = fetchTransactions(db_bill_transactions', bills)
                           /\ rendered' = Render(bills, transactions', now)
                      ELSE /\ rendered' = Render(bills, transactions, now)
                           /\ UNCHANGED <<db_bill_transactions, transactions>>
    /\ UNCHANGED <<db_bills, now, screen, bills, selectedDate, reminders,
                   selectedBillForDueDate, newDueDate, toast>>
    /\ UNCHANGED saleVars
    /\ UNCHANGED otherVars
    /\ UNCHANGED summaryVars

\* BillReminders mounts: selectedDate is new Date(), the effect runs
\* fetchReminders, whose queries succeed
OpenReminders ==
    /\ screen = "home"
    /\ screen' = "reminders"
    /\ selectedDate' = now
    /\ reminders' = fetchReminders(db_bills, db_bill_transactions, now)
    /\ toast' = ""
    /\ UNCHANGED <<db_bills, db_bill_transactions, now, bills, transactions, rendered,
                   selectedBillForDueDate, newDueDate>>
    /\ UNCHANGED saleVars
    /\ UNCHANGED otherVars
    /\ UNCHANGED summaryVars

\* a day is picked in the calendar: the effect runs fetchReminders, whose
\* queries succeed
SelectDate ==
    /\ screen = "reminders"
    /\ \E d \in ClockDays :
         /\ DateTime(d) # selectedDate
         /\ selectedDate' = DateTime(d)
         /\ reminders' = fetchReminders(db_bills, db_bill_transactions, DateTime(d))
    /\ toast' = ""
    /\ UNCHANGED <<db_bills, db_bill_transactions, now, screen, bills,
                   transactions, rendered, selectedBillForDueDate, newDueDate>>
    /\ UNCHANGED saleVars
    /\ UNCHANGED otherVars
    /\ UNCHANGED summaryVars

\* back to the index page: the mounted screen and its state are dropped
GoHome ==
    /\ screen \in {"details", "reminders"}
    /\ screen' = "home"
    /\ bills' = <<>>
    /\ transactions' = <<>>
    /\ rendered' = NotRendered
    /\ selectedDate' = 0
    /\ reminders' = <<>>
    /\ selectedBillForDueDate' = Null
    /\ newDueDate' = Null
    /\ toast' = ""
    /\ UNCHANGED <<db_bills, db_bill_transactions, now>>
    /\ UNCHANGED saleVars
    /\ UNCHANGED otherVars
    /\ UNCHANGED summaryVars

NextLedger ==
    \/ Tick
    \/ OpenDetails
    \/ Rerender
    \/ handlePaymentSubmit
    \/ OpenReminders
    \/ SelectDate
    \/ GoHome

SpecLedger == InitLedger /\ [][NextLedger]_vars

----------------------------------------------------------------------------
(* BillReminders with its due date dialog and with queries that fail *)

\* BillReminders mounts and a query of fetchReminders fails: the catch block
\* raises the notification, setReminders is not reached
OpenReminders_FetchFails ==
    /\ screen = "home"
    /\ screen' = "reminders"
    /\ selectedDate' = now
    /\ toast' = "Failed to fetch bill reminders"
    /\ UNCHANGED <<db_bills, db_bill_transactions, now, bills, transactions, rendered,
                   reminders, selectedBillForDueDate, newDueDate>>
    /\ UNCHANGED saleVars
    /\ UNCHANGED otherVars
    /\ UNCHANGED summaryVars

\* SelectDate_FetchFails that shows an empty list after the failure
SelectDate_FetchFails_EmptyList ==
    /\ screen = "reminders"
    /\ \E d \in ClockDays : DateTime(d) # selectedDate /\ selectedDate' = DateTime(d)
    /\ toast' = "Failed to fetch bill reminders"
    /\ reminders' = <<>>
    /\ UNCHANGED <<db_bills, db_bill_transactions, now, screen, bills, transactions,
                   rendered, selectedBillForDueDate, newDueDate>>
    /\ UNCHANGED saleVars
    /\ UNCHANGED otherVars
    /\ UNCHANGED summaryVars

\* a day is picked and a query of fetchReminders fails
SelectDate_FetchFails ==
    /\ screen = "reminders"
    /\ \E d \in ClockDays : DateTime(d) # selectedDate /\ selectedDate' = DateTime(d)
    /\ toast' = "Failed to fetch bill reminders"
    /\ UNCHANGED <<db_bills, db_bill_transactions, now, screen, bills, transactions,
                   rendered, reminders, selectedBillForDueDate, newDueDate>>
    /\ UNCHANGED saleVars
    /\ UNCHANGED otherVars
    /\ UNCHANGED summaryVars

\* the button of a row: the due date dialog opens on its bill
OpenDueDateDialog ==
    /\ screen = "reminders"
    /\ \E k \in 1..Len(reminders) :
         /\ selectedBillForDueDate' = Some(reminders[k].id)
         /\ newDueDate' = Some(reminders[k].due_date)
    /\ toast' = ""
    /\ UNCHANGED <<db_bills, db_bill_transactions, now, screen, bills, transactions,
                   rendered, selectedDate, reminders>>
    /\ UNCHANGED saleVars
    /\ UNCHANGED otherVars
    /\ UNCHANGED summaryVars

\* the date input of the dialog: another date is typed, or it is cleared
setNewDueDate ==
    /\ screen = "reminders"
    /\ ~IsNull(selectedBillForDueDate)
    /\ \E d \in {Null} \cup {Some(day) : day \in DueDates} :
         d # newDueDate /\ newDueDate' = d
    /\ toast' = ""
    /\ UNCHANGED <<db_bills, db_bill_transactions, now, screen, bills, transactions,
                   rendered, selectedDate, reminders, selectedBillForDueDate>>
    /\ UNCHANGED saleVars
    /\ UNCHANGED otherVars
    /\ UNCHANGED summaryVars

\* UpdateDueDate that rewrites the row from the copy held by the dialog
UpdateDueDate_WholeRow(table, billId, dueDate) ==
    [ i \in 1..Len(table) |->
        IF table[i].id = billId
          THEN [table[i] EXCEPT !.due_date = dueDate, !.is_active = FALSE]
          ELSE table[i] ]

\* the rows of bills after .update({ due_date }).eq('id', billId)
UpdateDueDate(table, billId, dueDate) ==
    [ i \in 1..Len(table) |->
        IF table[i].id = billId THEN [table[i] EXCEPT !.due_date = dueDate]
        ELSE table[i] ]

\* handleSetDueDate (its button is in the dialog): it returns without a bill
\* or without a date; the update fails, or it succeeds, the dialog is reset
\* and fetchReminders runs for the selected date (and succeeds or fails)
handleSetDueDate ==
    /\ screen = "reminders"
    /\ ~IsNull(selectedBillForDueDate)
    /\ IF IsNull(selectedBillForDueDate) \/ IsNull(newDueDate)
         THEN UNCHANGED <<db_bills, reminders, selectedBillForDueDate, newDueDate, toast>>
         ELSE \E updated \in BOOLEAN, fetched \in BOOLEAN :
                IF updated
                  THEN /\ db_bills' = UpdateDueDate(db_bills, Val(selectedBillForDueDate),
                                                    newDueDate)
                       /\ selectedBillForDueDate' = Null
                       /\ newDueDate' = Null
                       /\ IF fetched
                            THEN /\ reminders' = fetchReminders(db_bills',
                                                     db_bill_transactions, selectedDate)
                                 /\ toast' = "Due date updated successfully"
                            ELSE /\ reminders' = reminders
                                 /\ toast' = "Failed to fetch bill reminders"
                  ELSE /\ toast' = "Failed to update due date"
                       /\ UNCHANGED <<db_bills, reminders, selectedBillForDueDate,
                                      newDueDate>>
    /\ UNCHANGED <<db_bill_transactions, now, screen, bills, transactions, rendered,
                   selectedDate>>
    /\ UNCHANGED saleVars
    /\ UNCHANGED otherVars
    /\ UNCHANGED summaryVars

InitReminders ==
    /\ db_bills \in
         { << [ id |-> 1, bill_amount |-> 1000, interest_rate |-> Some(12),
                interest_type |-> "simple", bill_date |-> DaysFromCivil(2024, 1, 1),
                due_date |-> Some(d), is_active |-> TRUE ],
              [ id |-> 2, bill_amount |-> 500, interest_rate |-> Some(12),
                interest_type |-> "daily", bill_date |-> DaysFromCivil(2024, 1, 31),
                due_date |-> Some(DaysFromCivil(2024, 1, 31)), is_active |-> TRUE ] >> :
           d \in DueDates }
    /\ db_bill_transactions = <<>>
    /\ now = DateTime(DaysFromCivil(2024, 4, 1))
    /\ screen = "home"
    /\ showPaymentDialog = FALSE
    /\ selectedBillId = Null
    /\ paymentData = BlankPaymentData
    /\ db_cheques = <<>>
    /\ receivedCheques = <<>>
    /\ issuedCheques = <<>>
    /\ selectedCheque = Null
    /\ editDialogOpen = FALSE
    /\ deleteDialogOpen = FALSE
    /\ settings_access_password = <<>>
    /\ profiles = <<>>
    /\ script = "idle"
    /\ bills = <<>>
    /\ transactions = <<>>
    /\ rendered = NotRendered
    /\ selectedDate = 0
    /\ reminders = <<>>
    /\ selectedBillForDueDate = Null
    /\ newDueDate = Null
    /\ toast = ""
    /\ db_sales = <<>>
    /\ db_sale_transactions = <<>>
    /\ outstanding_amount = 0
    /\ dialog = [s \in Sessions |-> DialogUnmounted]
    /\ submit = [s \in Sessions |-> SubmitIdle]
    /\ db_mahajans = <<>>
    /\ summaryData = <<>>
    /\ cache = EmptyCache
    /\ dateFrom = Null
    /\ dateTo = Null
    /\ billStatusFilter = "all"
    /\ loading = TRUE
    /\ fetches = <<>>

NextReminders ==
    \/ Tick
    \/ OpenDetails
    \/ Rerender
    \/ handlePaymentSubmit
    \/ OpenReminders
    \/ SelectDate
    \/ GoHome
    \/ OpenReminders_FetchFails
    \/ SelectDate_FetchFails
    \/ OpenDueDateDialog
    \/ setNewDueDate
    \/ handleSetDueDate

SpecReminders == InitReminders /\ [][NextReminders]_vars


----------------------------------------------------------------------------
(* The sale payment dialog, in two sessions over the same tables *)

SaleAmounts == {400}
SaleTransactionTypes == {"payment", "refund"}

SaleTransactionRow(saleId, amount, type) ==
    [ sale_id |-> saleId, amount |-> amount, transaction_type |-> type ]

InitSale ==
    /\ db_sales \in
         { << [id |-> 1, sale_amount |-> 1000, is_active |-> TRUE],
              [id |-> 2, sale_amount |-> 500, is_active |-> a] >> : a \in BOOLEAN }
    /\ db_sale_transactions \in
         {<<>>} \cup {<<SaleTransactionRow(2, a, "payment")>> : a \in SaleAmounts}
    /\ outstanding_amount \in {0, 1500}
    /\ dialog = [s \in Sessions |-> DialogUnmounted]
    /\ submit = [s \in Sessions |-> SubmitIdle]
    /\ db_bills = <<>>
    /\ db_bill_transactions = <<>>
    /\ now = 0
    /\ screen = "customers"
    /\ showPaymentDialog = FALSE
    /\ selectedBillId = Null
    /\ paymentData = BlankPaymentData
    /\ db_cheques = <<>>
    /\ receivedCheques = <<>>
    /\ issuedCheques = <<>>
    /\ selectedCheque = Null
    /\ editDialogOpen = FALSE
    /\ deleteDialogOpen = FALSE
    /\ settings_access_password = <<>>
    /\ profiles = <<>>
    /\ script = "idle"
    /\ bills = <<>>
    /\ transactions = <<>>
    /\ rendered = NotRendered
    /\ selectedDate = 0
    /\ reminders = <<>>
    /\ selectedBillForDueDate = Null
    /\ newDueDate = Null
    /\ toast = ""
    /\ db_mahajans = <<>>
    /\ summaryData = <<>>
    /\ cache = EmptyCache
    /\ dateFrom = Null
    /\ dateTo = Null
    /\ billStatusFilter = "all"
    /\ loading = TRUE
    /\ fetches = <<>>

\* a write of session s is concurrent to every submission under way elsewhere
NoteWrite(s) ==
    [ o \in Sessions |->
        IF o # s /\ submit[o].pc # "idle"
          THEN [submit[o] EXCEPT !.concurrent = TRUE] ELSE submit[o] ]

\* The dialog mounts with a customer.  The initialiser handed to useState
\* calls fetchCustomerSales when the dialog mounts open; it runs once, at the
\* mount.  The call is taken to run the function: in the source the const
\* fetchCustomerSales (line 88) is initialised only after the initialiser has
\* run (lines 82-86), so a mount with open set raises a ReferenceError
\* there and no other place loads the sales.
MountDialog(s) ==
    /\ screen = "customers"
    /\ ~dialog[s].mounted
    /\ \E open \in BOOLEAN :
         dialog' = [dialog EXCEPT ![s] =
            [ mounted |-> TRUE, open |-> open, toast |-> "",
              sales |-> IF open
                          THEN fetchCustomerSales(db_sales, db_sale_transactions, <<>>)
                          ELSE <<>> ]]
    /\ UNCHANGED <<db_sales, db_sale_transactions, outstanding_amount, submit>>
    /\ UNCHANGED ledgerVars
    /\ UNCHANGED otherVars
    /\ UNCHANGED summaryVars

\* the parent changes the open prop; nothing is fetched
SetOpen(s) ==
    /\ dialog[s].mounted
    /\ submit[s].pc = "idle"
    /\ dialog' = [dialog EXCEPT ![s].open = ~dialog[s].open]
    /\ UNCHANGED <<db_sales, db_sale_transactions, outstanding_amount, submit>>
    /\ UNCHANGED ledgerVars
    /\ UNCHANGED otherVars
    /\ UNCHANGED summaryVars

UnmountDialog(s) ==
    /\ dialog[s].mounted
    /\ ~dialog[s].open
    /\ submit[s].pc = "idle"
    /\ dialog' = [dialog EXCEPT ![s] = DialogUnmounted]
    /\ UNCHANGED <<db_sales, db_sale_transactions, outstanding_amount, submit>>
    /\ UNCHANGED ledgerVars
    /\ UNCHANGED otherVars
    /\ UNCHANGED summaryVars

\* onSubmit up to the insert, for the sale and the amount text of the form
\* (the schema lets no empty text through): a sale that is not in sales and
\* an amount above its outstanding are refused, the dialog stays as it is;
\* otherwise the row is inserted, or the insert fails (it does for NaN, which
\* is sent as null into a column that takes none)
onSubmit_InsertOf(s, texts) ==
    /\ dialog[s].mounted /\ dialog[s].open
    /\ submit[s].pc = "idle"
    /\ \E saleId \in {1, 2}, text \in texts :
         LET selectedSale == FindSale(dialog[s].sales, saleId)
             paymentAmount == parseFloat(text)
             failed == /\ dialog' = [dialog EXCEPT ![s].toast = "error"]
                       /\ UNCHANGED <<db_sale_transactions, submit>>
         IN  IF selectedSale = <<>> THEN failed
             ELSE IF ~isNaN(paymentAmount)
                      /\ Val(paymentAmount) > selectedSale[1].outstanding THEN failed
             ELSE \E type \in SaleTransactionTypes, inserted \in BOOLEAN :
                    IF inserted /\ ~isNaN(paymentAmount)
                      THEN /\ Len(db_sale_transactions) < MaxSaleTx
                           /\ db_sale_transactions' =
                                Insert(db_sale_transactions,
                                       SaleTransactionRow(saleId, Val(paymentAmount), type))
                           /\ submit' = [NoteWrite(s) EXCEPT
                                           ![s] = [SubmitIdle EXCEPT !.pc = "inserted"]]
                           /\ dialog' = dialog
                      ELSE failed
    /\ UNCHANGED <<db_sales, outstanding_amount>>
    /\ UNCHANGED ledgerVars
    /\ UNCHANGED otherVars
    /\ UNCHANGED summaryVars

\* onSubmit up to the insert with a payment amount typed into the form
onSubmit_Insert(s) == onSubmit_InsertOf(s, SaleAmountTexts)

\* onSubmit up to the insert with any text the amount field lets through
onSubmit_InsertAnyText(s) == onSubmit_InsertOf(s, AmountTexts \ {<<>>})

\* onSubmit: the query of the customer's active sales
onSubmit_ReadSales(s) ==
    /\ submit[s].pc = "inserted"
    /\ submit' = [submit EXCEPT ![s].pc = "readSales",
                                ![s].allSalesData = QueryActiveSales(db_sales)]
    /\ UNCHANGED <<db_sales, db_sale_transactions, outstanding_amount, dialog>>
    /\ UNCHANGED ledgerVars
    /\ UNCHANGED otherVars
    /\ UNCHANGED summaryVars

\* onSubmit: the query of their transactions
onSubmit_ReadTransactions(s) ==
    /\ submit[s].pc = "readSales"
    /\ submit' = [submit EXCEPT ![s].pc = "readTransactions",
                                ![s].allTransData =
                                   QuerySaleTransactions(db_sale_transactions,
                                                         submit[s].allSalesData)]
    /\ UNCHANGED <<db_sales, db_sale_transactions, outstanding_amount, dialog>>
    /\ UNCHANGED ledgerVars
    /\ UNCHANGED otherVars
    /\ UNCHANGED summaryVars

\* onSubmit: the update of bill_customers, then toast.success, form.reset,
\* onOpenChange(false) and onPaymentRecorded
onSubmit_Update(s) ==
    /\ submit[s].pc = "readTransactions"
    /\ outstanding_amount' = totalOutstanding(submit[s].allSalesData, submit[s].allTransData)
    /\ dialog' = [dialog EXCEPT ![s].open = FALSE, ![s].toast = "success"]
    /\ submit' = [NoteWrite(s) EXCEPT ![s] = SubmitIdle]
    /\ UNCHANGED <<db_sales, db_sale_transactions>>
    /\ UNCHANGED ledgerVars
    /\ UNCHANGED otherVars
    /\ UNCHANGED summaryVars

NextSale ==
    \/ \E s \in Sessions : MountDialog(s)
    \/ \E s \in Sessions : SetOpen(s)
    \/ \E s \in Sessions : UnmountDialog(s)
    \/ \E s \in Sessions : onSubmit_Insert(s)
    \/ \E s \in Sessions : onSubmit_ReadSales(s)
    \/ \E s \in Sessions : onSubmit_ReadTransactions(s)
    \/ \E s \in Sessions : onSubmit_Update(s)

SpecSale == InitSale /\ [][NextSale]_vars

\* The payment form over a customer with two open sales, 800 of the first
\* paid in two payments, and any text in the amount field.
LastClockTime == CHOOSE t \in ClockTimes : \A u \in ClockTimes : u <= t

InitSaleForm ==
    /\ db_sales = << [id |-> 1, sale_amount |-> 1000, is_active |-> TRUE],
                     [id |-> 2, sale_amount |-> 500, is_active |-> TRUE] >>
    /\ db_sale_transactions = << SaleTransactionRow(1, 400, "payment"),
                                 SaleTransactionRow(1, 400, "payment") >>
    /\ outstanding_amount = 700
    /\ dialog = [s \in Sessions |-> DialogUnmounted]
    /\ submit = [s \in Sessions |-> SubmitIdle]
    /\ db_bills = <<>>
    /\ db_bill_transactions = <<>>
    /\ now = LastClockTime
    /\ screen = "customers"
    /\ showPaymentDialog = FALSE
    /\ selectedBillId = Null
    /\ paymentData = BlankPaymentData
    /\ db_cheques = <<>>
    /\ receivedCheques = <<>>
    /\ issuedCheques = <<>>
    /\ selectedCheque = Null
    /\ editDialogOpen = FALSE
    /\ deleteDialogOpen = FALSE
    /\ settings_access_password = <<>>
    /\ profiles = <<>>
    /\ script = "idle"
    /\ bills = <<>>
    /\ transactions = <<>>
    /\ rendered = NotRendered
    /\ selectedDate = 0
    /\ reminders = <<>>
    /\ selectedBillForDueDate = Null
    /\ newDueDate = Null
    /\ toast = ""
    /\ db_mahajans = <<>>
    /\ summaryData = <<>>
    /\ cache = EmptyCache
    /\ dateFrom = Null
    /\ dateTo = Null
    /\ billStatusFilter = "all"
    /\ loading = TRUE
    /\ fetches = <<>>

\* onSubmit: the query of the active sales fails; its error is not read and
\* allSalesData is null: the update is skipped, the success toast is raised
\* and the dialog is closed
onSubmit_ReadSales_Fails(s) ==
    /\ submit[s].pc = "inserted"
    /\ submit' = [submit EXCEPT ![s] = SubmitIdle]
    /\ dialog' = [dialog EXCEPT ![s].open = FALSE, ![s].toast = "success"]
    /\ UNCHANGED <<db_sales, db_sale_transactions, outstanding_amount>>
    /\ UNCHANGED ledgerVars
    /\ UNCHANGED otherVars
    /\ UNCHANGED summaryVars

\* onSubmit: the query of the transactions fails; its error is not read and
\* allTransData is null, which the sums take for no transaction
onSubmit_ReadTransactions_Fails(s) ==
    /\ submit[s].pc = "readSales"
    /\ submit' = [submit EXCEPT ![s].pc = "readTransactions",
                                ![s].allTransData = <<>>,
                                ![s].failed = TRUE]
    /\ UNCHANGED <<db_sales, db_sale_transactions, outstanding_amount, dialog>>
    /\ UNCHANGED ledgerVars
    /\ UNCHANGED otherVars
    /\ UNCHANGED summaryVars

\* onSubmit: the update of bill_customers fails; its error is not read, the
\* success toast is raised and the dialog is closed
onSubmit_Update_Fails(s) ==
    /\ submit[s].pc = "readTransactions"
    /\ dialog' = [dialog EXCEPT ![s].open = FALSE, ![s].toast = "success"]
    /\ submit' = [submit EXCEPT ![s] = SubmitIdle]
    /\ UNCHANGED <<db_sales, db_sale_transactions, outstanding_amount>>
    /\ UNCHANGED ledgerVars
    /\ UNCHANGED otherVars
    /\ UNCHANGED summaryVars

NextSaleForm ==
    \/ \E s \in Sessions : MountDialog(s)
    \/ \E s \in Sessions : SetOpen(s)
    \/ \E s \in Sessions : UnmountDialog(s)
    \/ \E s \in Sessions : onSubmit_InsertAnyText(s)
    \/ \E s \in Sessions : onSubmit_ReadSales(s)
    \/ \E s \in Sessions : onSubmit_ReadTransactions(s)
    \/ \E s \in Sessions : onSubmit_Update(s)
    \/ \E s \in Sessions : onSubmit_ReadSales_Fails(s)
    \/ \E s \in Sessions : onSubmit_ReadTransactions_Fails(s)
    \/ \E s \in Sessions : onSubmit_Update_Fails(s)

SpecSaleForm == InitSaleForm /\ [][NextSaleForm]_vars

----------------------------------------------------------------------------
(* MahajanSummary over the mahajans of one user *)

\* the page is used at the end of the last day of the clock
SummaryClock == DateTime(DaysFromCivil(2024, 4, 1)) + (TicksPerDay - 1)

SummaryBillRows ==
    { << [ id |-> 1, mahajan_id |-> 1, bill_amount |-> 1000,
           interest_rate |-> Some(12), interest_type |-> "daily",
           bill_date |-> DaysFromCivil(2024, 1, 1), due_date |-> Null,
           is_active |-> TRUE ],
         [ id |-> 2, mahajan_id |-> m, bill_amount |-> 500,
           interest_rate |-> Null, interest_type |-> "none",
           bill_date |-> DaysFromCivil(2024, 1, 31), due_date |-> Null,
           is_active |-> FALSE ] >> : m \in {1, 2} }

\* a row of bill_transactions with its payment_date
DatedTransactionRow(billId, amount, type, day) ==
    [ bill_id |-> billId, amount |-> amount, transaction_type |-> type,
      payment_date |-> day ]

InitSummary ==
    /\ db_mahajans = <<1, 2, 3>>
    /\ db_bills \in SummaryBillRows
    /\ db_bill_transactions \in
         {<<>>} \cup {<<DatedTransactionRow(1, a, "payment", DaysFromCivil(2024, 3, 31))>> :
                        a \in PaymentAmounts}
    /\ now = SummaryClock
    /\ screen = "mahajans"
    /\ showPaymentDialog = FALSE
    /\ selectedBillId = Null
    /\ paymentData = BlankPaymentData
    /\ db_cheques = <<>>
    /\ receivedCheques = <<>>
    /\ issuedCheques = <<>>
    /\ selectedCheque = Null
    /\ editDialogOpen = FALSE
    /\ deleteDialogOpen = FALSE
    /\ settings_access_password = <<>>
    /\ profiles = <<>>
    /\ script = "idle"
    /\ summaryData = <<>>
    /\ cache = EmptyCache
    /\ dateFrom = Null
    /\ dateTo = Null
    /\ billStatusFilter = "all"
    /\ loading = TRUE
    /\ fetches = <<>>
    /\ toast = ""
    /\ bills = <<>>
    /\ transactions = <<>>
    /\ rendered = NotRendered
    /\ selectedDate = 0
    /\ reminders = <<>>
    /\ selectedBillForDueDate = Null
    /\ newDueDate = Null
    /\ db_sales = <<>>
    /\ db_sale_transactions = <<>>
    /\ outstanding_amount = 0
    /\ dialog = [s \in Sessions |-> DialogUnmounted]
    /\ submit = [s \in Sessions |-> SubmitIdle]

summaryFrame == <<db_bills, now, bills, transactions, rendered, selectedDate,
                  reminders, selectedBillForDueDate, newDueDate, db_mahajans>>

\* fetchSummaryData(fromDate, toDate, statusFilter) up to its await, run by a
\* handler whose render saw the cache seen: a hit shows the entry, a miss
\* sends the query
fetchSummaryData(fromDate, toDate, statusFilter, seen) ==
    LET startDate == JsOr(fromDate, dateFrom)
        endDate == JsOr(toDate, dateTo)
        filter == IF statusFilter = "" THEN billStatusFilter ELSE statusFilter
        cacheKey == CacheKey(startDate, endDate, filter)
    IN  IF cacheKey \in DOMAIN seen
          THEN /\ summaryData' = seen[cacheKey]
               /\ loading' = FALSE
               /\ fetches' = fetches
          ELSE /\ Cardinality(DOMAIN cache') + Len(fetches) < MaxCache
               /\ summaryData' = summaryData
               /\ loading' = TRUE
               /\ fetches' = Append(fetches, cacheKey)

\* MahajanSummary mounts: the effect sets the range to the current month and
\* fetches it
OpenSummary ==
    /\ screen = "mahajans"
    /\ screen' = "summary"
    /\ dateFrom' = Some(FirstDayOfMonth(now))
    /\ dateTo' = Some(LastDayOfMonth(now))
    /\ cache' = cache
    /\ fetchSummaryData(dateFrom', dateTo', "", cache)
    /\ toast' = ""
    /\ UNCHANGED <<billStatusFilter, db_bill_transactions>>
    /\ UNCHANGED summaryFrame
    /\ UNCHANGED saleVars
    /\ UNCHANGED otherVars

\* fetchSummaryData_Resolve that takes the cache key from the filters of the
\* page when the response arrives
fetchSummaryData_Resolve_CurrentKey ==
    /\ screen = "summary"
    /\ \E i \in 1..Len(fetches) :
         LET result == SummaryResult(db_mahajans, db_bills, db_bill_transactions, fetches[i])
         IN  /\ cache' = (CacheKey(dateFrom, dateTo, billStatusFilter) :> result) @@ cache
             /\ summaryData' = result
             /\ fetches' = SubSeq(fetches, 1, i - 1) \o SubSeq(fetches, i + 1, Len(fetches))
    /\ loading' = FALSE
    /\ toast' = ""
    /\ UNCHANGED <<screen, dateFrom, dateTo, billStatusFilter, db_bill_transactions>>
    /\ UNCHANGED summaryFrame
    /\ UNCHANGED saleVars
    /\ UNCHANGED otherVars

\* the response of a query in flight: the rows are processed, filtered,
\* cached under the key of the call and shown
fetchSummaryData_Resolve ==
    /\ screen = "summary"
    /\ \E i \in 1..Len(fetches) :
         LET result == SummaryResult(db_mahajans, db_bills, db_bill_transactions, fetches[i])
         IN  /\ cache' = (fetches[i] :> result) @@ cache
             /\ summaryData' = result
             /\ fetches' = SubSeq(fetches, 1, i - 1) \o SubSeq(fetches, i + 1, Len(fetches))
    /\ loading' = FALSE
    /\ toast' = ""
    /\ UNCHANGED <<screen, dateFrom, dateTo, billStatusFilter, db_bill_transactions>>
    /\ UNCHANGED summaryFrame
    /\ UNCHANGED saleVars
    /\ UNCHANGED otherVars

\* the query fails: the catch block raises the notification
fetchSummaryData_Fail ==
    /\ screen = "summary"
    /\ \E i \in 1..Len(fetches) :
         fetches' = SubSeq(fetches, 1, i - 1) \o SubSeq(fetches, i + 1, Len(fetches))
    /\ loading' = FALSE
    /\ toast' = "Failed to fetch mahajan summary data"
    /\ UNCHANGED <<screen, summaryData, cache, dateFrom, dateTo, billStatusFilter,
                   db_bill_transactions>>
    /\ UNCHANGED summaryFrame
    /\ UNCHANGED saleVars
    /\ UNCHANGED otherVars

\* the start date input: cleared, or set back to the first day of the month
setDateFrom ==
    /\ screen = "summary"
    /\ \E d \in {Null, Some(FirstDayOfMonth(now))} : d # dateFrom /\ dateFrom' = d
    /\ toast' = ""
    /\ UNCHANGED <<screen, summaryData, cache, dateTo, billStatusFilter, loading,
                   fetches, db_bill_transactions>>
    /\ UNCHANGED summaryFrame
    /\ UNCHANGED saleVars
    /\ UNCHANGED otherVars

\* onValueChange of the status select
setBillStatusFilter ==
    /\ screen = "summary"
    /\ \E value \in StatusFilters :
         /\ value # billStatusFilter
         /\ billStatusFilter' = value
         /\ cache' = cache
         /\ fetchSummaryData(Null, Null, value, cache)
    /\ toast' = ""
    /\ UNCHANGED <<screen, dateFrom, dateTo, db_bill_transactions>>
    /\ UNCHANGED summaryFrame
    /\ UNCHANGED saleVars
    /\ UNCHANGED otherVars

\* the Apply Filters button
handleFilterChange ==
    /\ screen = "summary"
    /\ ~loading
    /\ cache' = cache
    /\ fetchSummaryData(Null, Null, "", cache)
    /\ toast' = ""
    /\ UNCHANGED <<screen, dateFrom, dateTo, billStatusFilter, db_bill_transactions>>
    /\ UNCHANGED summaryFrame
    /\ UNCHANGED saleVars
    /\ UNCHANGED otherVars

\* the refresh button: setCache(new Map()) takes effect at the next render,
\* the fetchSummaryData it calls is the one of this render and sees its cache
handleRefresh ==
    /\ screen = "summary"
    /\ ~loading
    /\ cache' = EmptyCache
    /\ fetchSummaryData(Null, Null, "", cache)
    /\ toast' = ""
    /\ UNCHANGED <<screen, dateFrom, dateTo, billStatusFilter, db_bill_transactions>>
    /\ UNCHANGED summaryFrame
    /\ UNCHANGED saleVars
    /\ UNCHANGED otherVars

\* a payment is recorded on a bill (the insert of handlePaymentSubmit; the
\* payment_date is the day of the insert)
PaymentRecorded ==
    /\ screen \in {"mahajans", "summary"}
    /\ Len(db_bill_transactions) < MaxTx
    /\ \E i \in 1..Len(db_bills), amount \in PaymentAmounts,
          type \in {"principal", "interest"} :
         db_bill_transactions' =
            Insert(db_bill_transactions,
                   DatedTransactionRow(db_bills[i].id, amount, type, DayOf(now)))
    /\ UNCHANGED <<screen, summaryData, cache, dateFrom, dateTo, billStatusFilter,
                   loading, fetches, toast>>
    /\ UNCHANGED summaryFrame
    /\ UNCHANGED saleVars
    /\ UNCHANGED otherVars

\* the page is left: the component and its state are dropped
CloseSummary ==
    /\ screen = "summary"
    /\ screen' = "mahajans"
    /\ summaryData' = <<>>
    /\ cache' = EmptyCache
    /\ dateFrom' = Null
    /\ dateTo' = Null
    /\ billStatusFilter' = "all"
    /\ loading' = TRUE
    /\ fetches' = <<>>
    /\ toast' = ""
    /\ UNCHANGED db_bill_transactions
    /\ UNCHANGED summaryFrame
    /\ UNCHANGED saleVars
    /\ UNCHANGED otherVars

NextSummary ==
    \/ OpenSummary
    \/ fetchSummaryData_Resolve
    \/ fetchSummaryData_Fail
    \/ setDateFrom
    \/ setBillStatusFilter
    \/ handleFilterChange
    \/ handleRefresh
    \/ PaymentRecorded
    \/ CloseSummary

SpecSummary == InitSummary /\ [][NextSummary]_vars

----------------------------------------------------------------------------
(* The application: one of its pages is in use at a time, each over the   *)
(* rows its Init gives it; the page in use is told by screen.             *)

InitApp == InitReminders \/ InitSaleForm \/ InitSummary

NextApp == NextReminders \/ NextSaleForm \/ NextSummary

SpecApp == InitApp /\ [][NextApp]_vars

----------------------------------------------------------------------------
(* BillReminders with its queries in flight *)

\* the bills and transactions the page is opened over: bill 1 is due, bill 2
\* may be paid in full, bill 3 is inactive
ReminderTransactions ==
    { <<>>,
      <<TransactionRow(1, 400, "interest")>>,
      <<TransactionRow(1, 400, "payment"), TransactionRow(2, 500, "principal")>>,
      <<TransactionRow(1, 400, "interest"), TransactionRow(2, 500, "principal")>> }

InitBillReminders ==
    /\ db_bills \in
         { << [ id |-> 1, bill_amount |-> 1000, interest_rate |-> Some(12),
                interest_type |-> "simple", bill_date |-> DaysFromCivil(2024, 1, 1),
                due_date |-> Some(d), is_active |-> TRUE ],
              [ id |-> 2, bill_amount |-> 500, interest_rate |-> Some(12),
                interest_type |-> "flat", bill_date |-> DaysFromCivil(2023, 12, 31),
                due_date |-> Some(DaysFromCivil(2023, 12, 31)), is_active |-> TRUE ],
              [ id |-> 3, bill_amount |-> 500, interest_rate |-> Null,
                interest_type |-> NullType, bill_date |-> DaysFromCivil(2023, 12, 31),
                due_date |-> Some(DaysFromCivil(2023, 12, 31)), is_active |-> FALSE ] >> :
           d \in DueDates }
    /\ db_bill_transactions \in ReminderTransactions
    /\ now = DateTime(DaysFromCivil(2024, 4, 1))
    /\ screen = "home"
    /\ showPaymentDialog = FALSE
    /\ selectedBillId = Null
    /\ paymentData = BlankPaymentData
    /\ db_cheques = <<>>
    /\ receivedCheques = <<>>
    /\ issuedCheques = <<>>
    /\ selectedCheque = Null
    /\ editDialogOpen = FALSE
    /\ deleteDialogOpen = FALSE
    /\ settings_access_password = <<>>
    /\ profiles = <<>>
    /\ script = "idle"
    /\ bills = <<>>
    /\ transactions = <<>>
    /\ rendered = NotRendered
    /\ selectedDate = 0
    /\ reminders = <<>>
    /\ selectedBillForDueDate = Null
    /\ newDueDate = Null
    /\ toast = ""
    /\ db_sales = <<>>
    /\ db_sale_transactions = <<>>
    /\ outstanding_amount = 0
    /\ dialog = [s \in Sessions |-> DialogUnmounted]
    /\ submit = [s \in Sessions |-> SubmitIdle]
    /\ db_mahajans = <<>>
    /\ summaryData = <<>>
    /\ cache = EmptyCache
    /\ dateFrom = Null
    /\ dateTo = Null
    /\ billStatusFilter = "all"
    /\ loading = TRUE
    /\ fetches = <<>>

\* what an in-flight fetchReminders leaves alone
remindersFrame == <<db_bills, db_bill_transactions, now, bills, transactions, rendered,
                    selectedBillForDueDate, newDueDate, db_mahajans, summaryData, cache,
                    dateFrom, dateTo, billStatusFilter>>

\* the sequence without its i-th element
RemoveAt(seq, i) == SubSeq(seq, 1, i - 1) \o SubSeq(seq, i + 1, Len(seq))

\* BillReminders mounts: selectedDate is new Date(), reminders is [], loading
\* is true, and the effect calls fetchReminders, which runs up to its first
\* await; fetches holds the selected date of every call that is in flight
OpenReminders_Loading ==
    /\ screen = "home"
    /\ screen' = "reminders"
    /\ selectedDate' = now
    /\ reminders' = <<>>
    /\ loading' = TRUE
    /\ fetches' = <<now>>
    /\ toast' = ""
    /\ UNCHANGED remindersFrame
    /\ UNCHANGED saleVars
    /\ UNCHANGED otherVars

\* a day is picked in the calendar: the effect calls fetchReminders for it,
\* whatever is in flight; setLoading(true) runs before the first await
setSelectedDate ==
    /\ screen = "reminders"
    /\ Len(fetches) < MaxFetches
    /\ \E d \in ClockDays :
         /\ DateTime(d) # selectedDate
         /\ selectedDate' = DateTime(d)
         /\ fetches' = Append(fetches, DateTime(d))
    /\ loading' = TRUE
    /\ UNCHANGED <<screen, reminders, toast>>
    /\ UNCHANGED remindersFrame
    /\ UNCHANGED saleVars
    /\ UNCHANGED otherVars

\* fetchReminders_Resolve that drops the response of a call whose date is no
\* longer the selected one
fetchReminders_Resolve_SelectedOnly ==
    /\ screen = "reminders"
    /\ \E i \in 1..Len(fetches) :
         /\ reminders' = IF fetches[i] = selectedDate
                           THEN fetchReminders(db_bills, db_bill_transactions, fetches[i])
                           ELSE reminders
         /\ fetches' = RemoveAt(fetches, i)
    /\ loading' = FALSE
    /\ UNCHANGED <<screen, selectedDate, toast>>
    /\ UNCHANGED remindersFrame
    /\ UNCHANGED saleVars
    /\ UNCHANGED otherVars

\* the queries of one call in flight are answered: setReminders with the rows
\* computed for the date of that call, then finally setLoading(false)
fetchReminders_Resolve ==
    /\ screen = "reminders"
    /\ \E i \in 1..Len(fetches) :
         /\ reminders' = fetchReminders(db_bills, db_bill_transactions, fetches[i])
         /\ fetches' = RemoveAt(fetches, i)
    /\ loading' = FALSE
    /\ UNCHANGED <<screen, selectedDate, toast>>
    /\ UNCHANGED remindersFrame
    /\ UNCHANGED saleVars
    /\ UNCHANGED otherVars

\* a query of one call in flight fails: the catch block shows the toast,
\* reminders is not set, then finally setLoading(false)
fetchReminders_Fail ==
    /\ screen = "reminders"
    /\ \E i \in 1..Len(fetches) : fetches' = RemoveAt(fetches, i)
    /\ loading' = FALSE
    /\ toast' = "Failed to fetch bill reminders"
    /\ UNCHANGED <<screen, selectedDate, reminders>>
    /\ UNCHANGED remindersFrame
    /\ UNCHANGED saleVars
    /\ UNCHANGED otherVars

\* the page is left: its state is dropped, and a response that arrives later
\* sets the state of no mounted component
CloseReminders ==
    /\ screen = "reminders"
    /\ screen' = "home"
    /\ selectedDate' = 0
    /\ reminders' = <<>>
    /\ loading' = TRUE
    /\ fetches' = <<>>
    /\ toast' = ""
    /\ UNCHANGED remindersFrame
    /\ UNCHANGED saleVars
    /\ UNCHANGED otherVars

NextBillReminders ==
    \/ OpenReminders_Loading
    \/ setSelectedDate
    \/ fetchReminders_Resolve
    \/ fetchReminders_Fail
    \/ CloseReminders

SpecBillReminders == InitBillReminders /\ [][NextBillReminders]_vars

----------------------------------------------------------------------------
(* fix_password_table.sql, run statement by statement *)

FixEmail == "fakiragram@grihasajjwa.com"

PasswordRow(hash, active, createdBy) ==
    [ password_hash |-> hash, is_active |-> active, created_by |-> createdBy ]

\* the contents of settings_access_password the script may find
PasswordRows == { PasswordRow(h, a, 1) : h \in {"121", "old"}, a \in BOOLEAN }
PasswordTables ==
    {<<>>} \cup { <<r>> : r \in PasswordRows } \cup { <<r, q>> : r \in PasswordRows, q \in PasswordRows }

\* the contents of profiles the script may find
ProfileTables ==
    { <<>>,
      << [user_id |-> 3, email |-> "other@grihasajjwa.com"] >>,
      << [user_id |-> 1, email |-> FixEmail] >>,
      << [user_id |-> 1, email |-> FixEmail], [user_id |-> 2, email |-> FixEmail] >> }

\* UPDATE public.settings_access_password SET is_active = false
DeactivateAll(table) == [ i \in 1..Len(table) |-> [table[i] EXCEPT !.is_active = FALSE] ]

\* SELECT '121', true, p.user_id FROM public.profiles p WHERE p.email = ...
MatchingProfiles(table) == { i \in 1..Len(table) : table[i].email = FixEmail }

InitScript ==
    /\ settings_access_password \in PasswordTables
    /\ profiles \in ProfileTables
    /\ script = "start"
    /\ screen = "sql"
    /\ db_bills = <<>>
    /\ db_bill_transactions = <<>>
    /\ now = LastClockTime
    /\ bills = <<>>
    /\ transactions = <<>>
    /\ rendered = NotRendered
    /\ selectedDate = 0
    /\ reminders = <<>>
    /\ selectedBillForDueDate = Null
    /\ newDueDate = Null
    /\ toast = ""
    /\ db_sales = <<>>
    /\ db_sale_transactions = <<>>
    /\ outstanding_amount = 0
    /\ dialog = [s \in Sessions |-> DialogUnmounted]
    /\ submit = [s \in Sessions |-> SubmitIdle]
    /\ db_mahajans = <<>>
    /\ summaryData = <<>>
    /\ cache = EmptyCache
    /\ dateFrom = Null
    /\ dateTo = Null
    /\ billStatusFilter = "all"
    /\ loading = TRUE
    /\ fetches = <<>>
    /\ showPaymentDialog = FALSE
    /\ selectedBillId = Null
    /\ paymentData = BlankPaymentData
    /\ db_cheques = <<>>
    /\ receivedCheques = <<>>
    /\ issuedCheques = <<>>
    /\ selectedCheque = Null
    /\ editDialogOpen = FALSE
    /\ deleteDialogOpen = FALSE

\* statement 2: every existing password is deactivated
DeactivatePasswords ==
    /\ script = "start"
    /\ settings_access_password' = DeactivateAll(settings_access_password)
    /\ script' = "deactivated"
    /\ UNCHANGED profiles
    /\ UNCHANGED <<ledgerVars, saleVars, summaryVars, paymentVars, chequeVars>>

\* statement 3: INSERT ... SELECT ... LIMIT 1 adds one row for one of the
\* matching profiles (no ORDER BY: any of them), and no row when none matches;
\* the statements after it only read
InsertActivePassword ==
    /\ script = "deactivated"
    /\ IF MatchingProfiles(profiles) = {}
         THEN settings_access_password' = settings_access_password
         ELSE \E i \in MatchingProfiles(profiles) :
                settings_access_password' =
                   Insert(settings_access_password,
                          PasswordRow("121", TRUE, profiles[i].user_id))
    /\ script' = "done"
    /\ UNCHANGED profiles
    /\ UNCHANGED <<ledgerVars, saleVars, summaryVars, paymentVars, chequeVars>>

NextScript ==
    \/ DeactivatePasswords
    \/ InsertActivePassword

SpecScript == InitScript /\ [][NextScript]_vars

----------------------------------------------------------------------------
(* The payment dialog of MahajanDetails, with its insert in flight *)

InitPayment ==
    /\ db_bills = << [ id |-> 1, bill_amount |-> 1000, interest_rate |-> Some(12),
                       interest_type |-> "simple", bill_date |-> DaysFromCivil(2024, 1, 1),
                       due_date |-> Null, is_active |-> TRUE ] >>
    /\ db_bill_transactions = <<>>
    /\ now = LastClockTime
    /\ screen = "home"
    /\ showPaymentDialog = FALSE
    /\ selectedBillId = Null
    /\ paymentData = BlankPaymentData
    /\ loading = FALSE
    /\ fetches = <<>>
    /\ bills = <<>>
    /\ transactions = <<>>
    /\ rendered = NotRendered
    /\ selectedDate = 0
    /\ reminders = <<>>
    /\ selectedBillForDueDate = Null
    /\ newDueDate = Null
    /\ toast = ""
    /\ db_sales = <<>>
    /\ db_sale_transactions = <<>>
    /\ outstanding_amount = 0
    /\ dialog = [s \in Sessions |-> DialogUnmounted]
    /\ submit = [s \in Sessions |-> SubmitIdle]
    /\ db_mahajans = <<>>
    /\ summaryData = <<>>
    /\ cache = EmptyCache
    /\ dateFrom = Null
    /\ dateTo = Null
    /\ billStatusFilter = "all"
    /\ db_cheques = <<>>
    /\ receivedCheques = <<>>
    /\ issuedCheques = <<>>
    /\ selectedCheque = Null
    /\ editDialogOpen = FALSE
    /\ deleteDialogOpen = FALSE
    /\ settings_access_password = <<>>
    /\ profiles = <<>>
    /\ script = "idle"

\* what the payment dialog and its handler leave alone
paymentFrame == <<db_bills, now, screen, bills, selectedDate, reminders,
                  selectedBillForDueDate, newDueDate, db_mahajans, summaryData, cache,
                  dateFrom, dateTo, billStatusFilter>>

\* the Record Payment button of the header (the selection stays as it is) or
\* of the row of an active bill (which selects the bill)
OpenPaymentDialog ==
    /\ screen = "details"
    /\ ~showPaymentDialog
    /\ showPaymentDialog' = TRUE
    /\ \E sel \in {selectedBillId}
                  \cup {Some(bills[i].id) : i \in {j \in 1..Len(bills) : bills[j].is_active}} :
         selectedBillId' = sel
    /\ UNCHANGED <<paymentData, db_bill_transactions, transactions, rendered, toast,
                   loading, fetches>>
    /\ UNCHANGED paymentFrame
    /\ UNCHANGED <<saleVars, chequeVars, scriptVars>>

\* onOpenChange(false): the dialog closes, what was entered stays
ClosePaymentDialog ==
    /\ screen = "details"
    /\ showPaymentDialog
    /\ showPaymentDialog' = FALSE
    /\ UNCHANGED <<selectedBillId, paymentData, db_bill_transactions, transactions,
                   rendered, toast, loading, fetches>>
    /\ UNCHANGED paymentFrame
    /\ UNCHANGED <<saleVars, chequeVars, scriptVars>>

\* the bill select of the dialog
setSelectedBillId ==
    /\ screen = "details"
    /\ showPaymentDialog
    /\ \E i \in 1..Len(bills) :
         /\ bills[i].is_active
         /\ Some(bills[i].id) # selectedBillId
         /\ selectedBillId' = Some(bills[i].id)
    /\ UNCHANGED <<showPaymentDialog, paymentData, db_bill_transactions, transactions,
                   rendered, toast, loading, fetches>>
    /\ UNCHANGED paymentFrame
    /\ UNCHANGED <<saleVars, chequeVars, scriptVars>>

\* the amount input and the payment type select of the dialog
setPaymentData ==
    /\ screen = "details"
    /\ showPaymentDialog
    /\ \E text \in AmountTexts, type \in PaymentTypes :
         /\ [amount |-> text, paymentType |-> type] # paymentData
         /\ paymentData' = [amount |-> text, paymentType |-> type]
    /\ UNCHANGED <<showPaymentDialog, selectedBillId, db_bill_transactions, transactions,
                   rendered, toast, loading, fetches>>
    /\ UNCHANGED paymentFrame
    /\ UNCHANGED <<saleVars, chequeVars, scriptVars>>

\* handlePaymentSubmit up to its await (the submit button is disabled while
\* loading): it returns without a bill, shows a toast and returns on an
\* amount that is not a number or not positive, and else sets loading and
\* sends the insert; fetches holds the row being inserted
handlePaymentSubmit_Send ==
    /\ screen = "details"
    /\ showPaymentDialog
    /\ ~loading
    /\ LET amount == parseFloat(paymentData.amount)
       IN  IF IsNull(selectedBillId)
             THEN UNCHANGED <<toast, loading, fetches>>
           ELSE IF isNaN(amount) \/ Val(amount) <= 0
             THEN /\ toast' = "Invalid Amount"
                  /\ UNCHANGED <<loading, fetches>>
           ELSE /\ loading' = TRUE
                /\ fetches' = <<TransactionRow(Val(selectedBillId), Val(amount),
                                               paymentData.paymentType)>>
                /\ toast' = toast
    /\ UNCHANGED <<showPaymentDialog, selectedBillId, paymentData, db_bill_transactions,
                   transactions, rendered>>
    /\ UNCHANGED paymentFrame
    /\ UNCHANGED <<saleVars, chequeVars, scriptVars>>

\* the insert succeeds: toast, the form is reset, the dialog closes, the
\* selection is cleared, fetchTransactions runs (and succeeds or fails), and
\* finally loading is false
handlePaymentSubmit_Inserted ==
    /\ screen = "details"
    /\ fetches # <<>>
    /\ Len(db_bill_transactions) < MaxTx
    /\ db_bill_transactions' = Insert(db_bill_transactions, fetches[1])
    /\ paymentData' = BlankPaymentData
    /\ showPaymentDialog' = FALSE
    /\ selectedBillId' = Null
    /\ \E fetched \in BOOLEAN :
         IF fetched
           THEN /\ transactions' = fetchTransactions(db_bill_transactions', bills)
                /\ toast' = "Payment recorded"
           ELSE /\ transactions' = transactions
                /\ toast' = "Failed to fetch transactions"
    /\ rendered' = Render(bills, transactions', now)
    /\ loading' = FALSE
    /\ fetches' = <<>>
    /\ UNCHANGED paymentFrame
    /\ UNCHANGED <<saleVars, chequeVars, scriptVars>>

\* handlePaymentSubmit_Failed that resets the dialog as a recorded payment does
handlePaymentSubmit_Failed_Reset ==
    /\ screen = "details"
    /\ fetches # <<>>
    /\ toast' = "Failed to record payment"
    /\ paymentData' = BlankPaymentData
    /\ showPaymentDialog' = FALSE
    /\ selectedBillId' = Null
    /\ loading' = FALSE
    /\ fetches' = <<>>
    /\ UNCHANGED <<db_bill_transactions, transactions, rendered>>
    /\ UNCHANGED paymentFrame
    /\ UNCHANGED <<saleVars, chequeVars, scriptVars>>

\* the insert fails: the catch block shows its toast, and finally loading is
\* false
handlePaymentSubmit_Failed ==
    /\ screen = "details"
    /\ fetches # <<>>
    /\ toast' = "Failed to record payment"
    /\ loading' = FALSE
    /\ fetches' = <<>>
    /\ UNCHANGED <<showPaymentDialog, selectedBillId, paymentData, db_bill_transactions,
                   transactions, rendered>>
    /\ UNCHANGED paymentFrame
    /\ UNCHANGED <<saleVars, chequeVars, scriptVars>>

\* MahajanDetails is left: its state is dropped
CloseDetails ==
    /\ screen = "details"
    /\ screen' = "home"
    /\ bills' = <<>>
    /\ transactions' = <<>>
    /\ rendered' = NotRendered
    /\ showPaymentDialog' = FALSE
    /\ selectedBillId' = Null
    /\ paymentData' = BlankPaymentData
    /\ loading' = FALSE
    /\ fetches' = <<>>
    /\ toast' = ""
    /\ UNCHANGED <<db_bills, db_bill_transactions, now, selectedDate, reminders,
                   selectedBillForDueDate, newDueDate, db_mahajans, summaryData, cache,
                   dateFrom, dateTo, billStatusFilter>>
    /\ UNCHANGED <<saleVars, chequeVars, scriptVars>>

NextPayment ==
    \/ OpenDetails
    \/ OpenPaymentDialog
    \/ ClosePaymentDialog
    \/ setSelectedBillId
    \/ setPaymentData
    \/ handlePaymentSubmit_Send
    \/ handlePaymentSubmit_Inserted
    \/ handlePaymentSubmit_Failed
    \/ CloseDetails

SpecPayment == InitPayment /\ [][NextPayment]_vars

----------------------------------------------------------------------------
(* The Cheques page *)

ChequeStatuses == {"pending", "processing", "cleared", "bounced"}

ChequeRow(id, type, status) == [ id |-> id, type |-> type, status |-> status ]

InitCheques ==
    /\ db_cheques \in
         { << ChequeRow(1, "received", s), ChequeRow(2, "issued", t) >> :
             s \in {"pending", "cleared"}, t \in {"pending", "bounced"} }
    /\ receivedCheques = <<>>
    /\ issuedCheques = <<>>
    /\ selectedCheque = Null
    /\ editDialogOpen = FALSE
    /\ deleteDialogOpen = FALSE
    /\ loading = TRUE
    /\ fetches = <<>>
    /\ toast = ""
    /\ screen = "dashboard"
    /\ db_bills = <<>>
    /\ db_bill_transactions = <<>>
    /\ now = LastClockTime
    /\ bills = <<>>
    /\ transactions = <<>>
    /\ rendered = NotRendered
    /\ selectedDate = 0
    /\ reminders = <<>>
    /\ selectedBillForDueDate = Null
    /\ newDueDate = Null
    /\ db_sales = <<>>
    /\ db_sale_transactions = <<>>
    /\ outstanding_amount = 0
    /\ dialog = [s \in Sessions |-> DialogUnmounted]
    /\ submit = [s \in Sessions |-> SubmitIdle]
    /\ db_mahajans = <<>>
    /\ summaryData = <<>>
    /\ cache = EmptyCache
    /\ dateFrom = Null
    /\ dateTo = Null
    /\ billStatusFilter = "all"
    /\ showPaymentDialog = FALSE
    /\ selectedBillId = Null
    /\ paymentData = BlankPaymentData
    /\ settings_access_password = <<>>
    /\ profiles = <<>>
    /\ script = "idle"

\* what the Cheques page leaves alone
chequesFrame == <<db_bills, db_bill_transactions, now, bills, transactions, rendered,
                  selectedDate, reminders, selectedBillForDueDate, newDueDate,
                  db_mahajans, summaryData, cache, dateFrom, dateTo, billStatusFilter>>

\* the rows both tabs show
ListedCheques == receivedCheques \o issuedCheques

\* .delete().eq('id', id)
DeleteCheque(table, id) == SelectSeq(table, LAMBDA c : c.id # id)

\* .update({ status }).eq('id', id)
UpdateChequeStatus(table, id, status) ==
    [ i \in 1..Len(table) |->
        IF table[i].id = id THEN [table[i] EXCEPT !.status = status] ELSE table[i] ]

\* the page mounts: loading is true and the effect calls fetchCheques
OpenCheques ==
    /\ screen = "dashboard"
    /\ screen' = "cheques"
    /\ loading' = TRUE
    /\ fetches' = <<"cheques">>
    /\ UNCHANGED <<db_cheques, receivedCheques, issuedCheques, selectedCheque,
                   editDialogOpen, deleteDialogOpen, toast>>
    /\ UNCHANGED chequesFrame
    /\ UNCHANGED <<saleVars, paymentVars, scriptVars>>

\* fetchCheques_Resolve that leaves loading as it is
fetchCheques_Resolve_StillLoading ==
    /\ screen = "cheques"
    /\ \E i \in 1..Len(fetches) : fetches' = RemoveAt(fetches, i)
    /\ receivedCheques' = SelectSeq(db_cheques, LAMBDA c : c.type = "received")
    /\ issuedCheques' = SelectSeq(db_cheques, LAMBDA c : c.type = "issued")
    /\ loading' = loading
    /\ UNCHANGED <<db_cheques, selectedCheque, editDialogOpen, deleteDialogOpen, toast,
                   screen>>
    /\ UNCHANGED chequesFrame
    /\ UNCHANGED <<saleVars, paymentVars, scriptVars>>

\* the query of fetchCheques is answered: both lists are set, and finally
\* loading is false
fetchCheques_Resolve ==
    /\ screen = "cheques"
    /\ \E i \in 1..Len(fetches) : fetches' = RemoveAt(fetches, i)
    /\ receivedCheques' = SelectSeq(db_cheques, LAMBDA c : c.type = "received")
    /\ issuedCheques' = SelectSeq(db_cheques, LAMBDA c : c.type = "issued")
    /\ loading' = FALSE
    /\ UNCHANGED <<db_cheques, selectedCheque, editDialogOpen, deleteDialogOpen, toast,
                   screen>>
    /\ UNCHANGED chequesFrame
    /\ UNCHANGED <<saleVars, paymentVars, scriptVars>>

\* the query fails: the catch block shows the toast, the lists stay, and
\* finally loading is false
fetchCheques_Fail ==
    /\ screen = "cheques"
    /\ \E i \in 1..Len(fetches) : fetches' = RemoveAt(fetches, i)
    /\ toast' = "Error fetching cheques"
    /\ loading' = FALSE
    /\ UNCHANGED <<db_cheques, receivedCheques, issuedCheques, selectedCheque,
                   editDialogOpen, deleteDialogOpen, screen>>
    /\ UNCHANGED chequesFrame
    /\ UNCHANGED <<saleVars, paymentVars, scriptVars>>

\* the edit button of a row (the table is rendered only when loading is false)
OpenEditDialog ==
    /\ screen = "cheques"
    /\ ~loading
    /\ ~editDialogOpen /\ ~deleteDialogOpen
    /\ \E k \in 1..Len(ListedCheques) : selectedCheque' = Some(ListedCheques[k])
    /\ editDialogOpen' = TRUE
    /\ UNCHANGED <<db_cheques, receivedCheques, issuedCheques, deleteDialogOpen, toast,
                   screen, loading, fetches>>
    /\ UNCHANGED chequesFrame
    /\ UNCHANGED <<saleVars, paymentVars, scriptVars>>

\* the delete button of a row, rendered when the status listed is not 'cleared'
OpenDeleteDialog ==
    /\ screen = "cheques"
    /\ ~loading
    /\ ~editDialogOpen /\ ~deleteDialogOpen
    /\ \E k \in 1..Len(ListedCheques) :
         /\ ListedCheques[k].status # "cleared"
         /\ selectedCheque' = Some(ListedCheques[k])
    /\ deleteDialogOpen' = TRUE
    /\ UNCHANGED <<db_cheques, receivedCheques, issuedCheques, editDialogOpen, toast,
                   screen, loading, fetches>>
    /\ UNCHANGED chequesFrame
    /\ UNCHANGED <<saleVars, paymentVars, scriptVars>>

\* onOpenChange(false) of the dialog that is open: selectedCheque stays
CancelChequeDialog ==
    /\ screen = "cheques"
    /\ ~loading
    /\ editDialogOpen \/ deleteDialogOpen
    /\ editDialogOpen' = FALSE
    /\ deleteDialogOpen' = FALSE
    /\ UNCHANGED <<db_cheques, receivedCheques, issuedCheques, selectedCheque, toast,
                   screen, loading, fetches>>
    /\ UNCHANGED chequesFrame
    /\ UNCHANGED <<saleVars, paymentVars, scriptVars>>

\* EditChequeDialog saves another status for its cheque, closes and calls
\* onSuccess, which is fetchCheques
EditChequeDialog_Save ==
    /\ screen = "cheques"
    /\ ~loading
    /\ editDialogOpen
    /\ ~IsNull(selectedCheque)
    /\ \E status \in ChequeStatuses :
         /\ status # Val(selectedCheque).status
         /\ db_cheques' = UpdateChequeStatus(db_cheques, Val(selectedCheque).id, status)
    /\ editDialogOpen' = FALSE
    /\ loading' = TRUE
    /\ fetches' = Append(fetches, "cheques")
    /\ toast' = ""
    /\ UNCHANGED <<receivedCheques, issuedCheques, selectedCheque, deleteDialogOpen,
                   screen>>
    /\ UNCHANGED chequesFrame
    /\ UNCHANGED <<saleVars, paymentVars, scriptVars>>

\* handleDelete, from the Delete button of the alert dialog (which closes the
\* dialog): the row with the id of selectedCheque is deleted, then toast,
\* fetchCheques and the selection is cleared; or the delete fails and the
\* catch block shows its toast
handleDelete ==
    /\ screen = "cheques"
    /\ ~loading
    /\ deleteDialogOpen
    /\ deleteDialogOpen' = FALSE
    /\ IF IsNull(selectedCheque)
         THEN UNCHANGED <<db_cheques, selectedCheque, toast, loading, fetches>>
         ELSE \E deleted \in BOOLEAN :
                IF deleted
                  THEN /\ db_cheques' = DeleteCheque(db_cheques, Val(selectedCheque).id)
                       /\ toast' = "Cheque deleted successfully"
                       /\ loading' = TRUE
                       /\ fetches' = Append(fetches, "cheques")
                       /\ selectedCheque' = Null
                  ELSE /\ toast' = "Error deleting cheque"
                       /\ UNCHANGED <<db_cheques, selectedCheque, loading, fetches>>
    /\ UNCHANGED <<receivedCheques, issuedCheques, editDialogOpen, screen>>
    /\ UNCHANGED chequesFrame
    /\ UNCHANGED <<saleVars, paymentVars, scriptVars>>

\* the page is left: its state is dropped
CloseCheques ==
    /\ screen = "cheques"
    /\ screen' = "dashboard"
    /\ receivedCheques' = <<>>
    /\ issuedCheques' = <<>>
    /\ selectedCheque' = Null
    /\ editDialogOpen' = FALSE
    /\ deleteDialogOpen' = FALSE
    /\ loading' = TRUE
    /\ fetches' = <<>>
    /\ toast' = ""
    /\ UNCHANGED db_cheques
    /\ UNCHANGED chequesFrame
    /\ UNCHANGED <<saleVars, paymentVars, scriptVars>>

NextCheques ==
    \/ OpenCheques
    \/ fetchCheques_Resolve
    \/ fetchCheques_Fail
    \/ OpenEditDialog
    \/ OpenDeleteDialog
    \/ CancelChequeDialog
    \/ EditChequeDialog_Save
    \/ handleDelete
    \/ CloseCheques

SpecCheques == InitCheques /\ [][NextCheques]_vars

----------------------------------------------------------------------------
(* The pages that fetch on their own: one of them is in use at a time *)

InitFetches == InitBillReminders \/ InitSummary \/ InitCheques

NextFetches == NextBillReminders \/ NextSummary \/ NextCheques

SpecFetches == InitFetches /\ [][NextFetches]_vars

----------------------------------------------------------------------------
(* What the claims speak of *)

RECURSIVE SumOfKinds(_, _, _)
\* the sum of the amounts of the transactions of a bill whose kind is in kinds
SumOfKinds(txs, billId, kinds) ==
    IF txs = <<>> THEN 0
    ELSE (IF txs[1].bill_id = billId /\ txs[1].transaction_type \in kinds
            THEN txs[1].amount ELSE 0)
         + SumOfKinds(Tail(txs), billId, kinds)

HasTransactions(txs, billId) == \E k \in 1..Len(txs) : txs[k].bill_id = billId

\* MahajanDetails is mounted and shows bill i
Shown(i) == screen = "details" /\ i \in 1..Len(bills)
\* the balance and the interest a render of MahajanDetails at this instant shows
DetailsBalance(i) == calculateBillBalance(bills, transactions, bills[i].id)
DetailsInterest(i) == calculateInterest(bills[i], DetailsBalance(i), now)

\* BillReminders is mounted: the stored bill i and the day it is computed for
Listed(i) == screen = "reminders" /\ i \in 1..Len(db_bills)
AsOfDay == DayOf(selectedDate)
\* the bill is among those fetchReminders computes for the selected day
Due(i) == /\ db_bills[i].is_active
          /\ ~IsNull(db_bills[i].due_date)
          /\ Val(db_bills[i].due_date) <= AsOfDay
RemBalance(i) == ReminderBalance(db_bills[i], db_bill_transactions)
RemInterest(i) == ReminderInterest(db_bills[i], RemBalance(i), AsOfDay)
\* the row of reminders for the stored bill i, <<>> when it has none
RemRow(i) == SelectSeq(reminders, LAMBDA r : r.id = db_bills[i].id)

\* C1: at each balance call site the balance is bill_amount minus the amounts
\* of the 'payment' and 'principal' transactions only.
C1_BalanceCountsPrincipalOnly ==
    /\ \A i \in 1..Len(bills) : Shown(i) =>
         /\ DetailsBalance(i) = bills[i].bill_amount
               - SumOfKinds(transactions, bills[i].id, {"payment", "principal"})
         /\ rendered.rows[i].balance = DetailsBalance(i)
    /\ \A i \in 1..Len(db_bills) : Listed(i) =>
         /\ RemBalance(i) = db_bills[i].bill_amount
               - SumOfKinds(db_bill_transactions, db_bills[i].id, {"payment", "principal"})
         /\ \A k \in 1..Len(RemRow(i)) : RemRow(i)[k].outstanding_balance = RemBalance(i)

\* C2: the interest of each interest call site is never negative.
C2_InterestNonNegative ==
    /\ \A i \in 1..Len(bills) : Shown(i) => DetailsInterest(i) >= 0
    /\ \A i \in 1..Len(db_bills) : Listed(i) /\ Due(i) => RemInterest(i) >= 0

\* C3: a bill without transactions has balance = bill amount at each call site,
\* and interest 0 whenever the as-of date is on or before the origination date.
C3_NoTransactionsNoElapsedTime ==
    /\ \A i \in 1..Len(bills) :
         Shown(i) /\ ~HasTransactions(transactions, bills[i].id) =>
           /\ DetailsBalance(i) = bills[i].bill_amount
           /\ DayOf(now) <= bills[i].bill_date => DetailsInterest(i) = 0
    /\ \A i \in 1..Len(db_bills) :
         Listed(i) /\ Due(i) /\ ~HasTransactions(db_bill_transactions, db_bills[i].id) =>
           /\ RemBalance(i) = db_bills[i].bill_amount
           /\ AsOfDay <= Val(db_bills[i].due_date) => RemInterest(i) = 0

\* C4: a 'flat' bill with a positive rate has interest balance * rate / 100 at
\* each interest call site, whatever the as-of date.
C4_FlatInterest ==
    /\ \A i \in 1..Len(bills) :
         Shown(i) /\ bills[i].interest_type = "flat" /\ JsPositive(bills[i].interest_rate) =>
           DetailsInterest(i) * PercentBase
             = DetailsBalance(i) * Val(bills[i].interest_rate) * Cents
    /\ \A i \in 1..Len(db_bills) :
         Listed(i) /\ Due(i) /\ db_bills[i].interest_type = "flat"
           /\ JsPositive(db_bills[i].interest_rate) =>
           RemInterest(i) * PercentBase
             = RemBalance(i) * Val(db_bills[i].interest_rate) * InterestDen

\* the bill's method or rate asks for no interest
NoInterestCase(b) ==
    \/ b.interest_type = "none"
    \/ JsFalsy(b.interest_rate)
    \/ b.interest_type \notin {"none", "daily", "monthly", "simple", "flat"}

\* C5: a bill whose method is 'none', null or unrecognised, or whose rate is
\* null or zero, has interest 0 at each interest call site (the rows shown
\* carry no interest).
C5_NoInterest ==
    /\ \A i \in 1..Len(bills) : Shown(i) /\ NoInterestCase(bills[i]) =>
         /\ DetailsInterest(i) = 0
         /\ rendered.rows[i].interest = 0
    /\ \A i \in 1..Len(db_bills) : Listed(i) /\ Due(i) /\ NoInterestCase(db_bills[i]) =>
         /\ RemInterest(i) = 0
         /\ \A k \in 1..Len(RemRow(i)) :
              RemRow(i)[k].amount_due = RemRow(i)[k].outstanding_balance * InterestDen

C5_Witness ==
    /\ Shown(1)
    /\ bills[1].interest_type = "compound"
    /\ bills[1].interest_rate = Some(24)
    /\ bills[1].is_active
    /\ DayOf(now) > bills[1].bill_date
    /\ rendered.rows[1] = [id |-> 1, balance |-> 600, interest |-> 0]

\* C6 as claimed: daily interest is balance * (rate/100) * (days/365) with
\* days the ceiling of the days from the origination date (bill_date) to the
\* as-of instant, in MahajanDetails and in the 'simple' branch of BillReminders.
C6_SameCeilingDayCount ==
    /\ \A i \in 1..Len(bills) :
         Shown(i) /\ bills[i].interest_type = "daily" /\ ~JsFalsy(bills[i].interest_rate) =>
           DetailsInterest(i) =
             Round(DetailsBalance(i) * Val(bills[i].interest_rate)
                     * Ceil(now - DateTime(bills[i].bill_date), TicksPerDay) * Cents,
                   PercentBase * DaysPerYear)
    /\ \A i \in 1..Len(db_bills) :
         Listed(i) /\ Due(i) /\ db_bills[i].interest_type = "simple"
           /\ JsPositive(db_bills[i].interest_rate) =>
           RemInterest(i) =
             RemBalance(i) * Val(db_bills[i].interest_rate)
               * Ceil(selectedDate - DateTime(db_bills[i].bill_date), TicksPerDay)

\* C6 as amended: MahajanDetails counts the ceiling of the days from bill_date
\* to the current instant and rounds the interest to 2 decimals; the 'simple'
\* branch of BillReminders counts the whole days from the due date to the
\* selected calendar day and does not round.
C6_DayCountPerCallSite ==
    /\ \A i \in 1..Len(bills) :
         Shown(i) /\ bills[i].interest_type = "daily" /\ ~JsFalsy(bills[i].interest_rate) =>
           DetailsInterest(i) =
             Round(DetailsBalance(i) * Val(bills[i].interest_rate)
                     * Ceil(now - DateTime(bills[i].bill_date), TicksPerDay) * Cents,
                   PercentBase * DaysPerYear)
    /\ \A i \in 1..Len(db_bills) :
         Listed(i) /\ Due(i) /\ db_bills[i].interest_type = "simple"
           /\ JsPositive(db_bills[i].interest_rate) =>
           /\ RemInterest(i) =
                RemBalance(i) * Val(db_bills[i].interest_rate)
                  * (AsOfDay - Val(db_bills[i].due_date))
           /\ \A k \in 1..Len(RemRow(i)) :
                RemRow(i)[k].amount_due =
                  RemBalance(i) * InterestDen
                  + Max(0, RemInterest(i)
                           - SumOfKinds(db_bill_transactions, db_bills[i].id, {"interest"})
                             * InterestDen)

C6_Witness ==
    /\ Listed(1) /\ Due(1)
    /\ db_bills[1].interest_type = "simple"
    /\ db_bills[1].interest_rate = Some(12)
    /\ db_bills[1].bill_date = DaysFromCivil(2024, 1, 1)
    /\ db_bills[1].due_date = Some(DaysFromCivil(2024, 1, 31))
    /\ selectedDate = DateTime(DaysFromCivil(2024, 4, 1)) + 1
    /\ Len(reminders) = 1
    /\ reminders[1].outstanding_balance = 1000
    /\ reminders[1].amount_due = 1000 * InterestDen + 1000 * 12 * 61

\* C7: monthly interest in MahajanDetails is balance * (rate/100) *
\* (wholeMonths + dayDifference/30), rounded to 2 decimals, with wholeMonths =
\* 12 * (year difference) + (month difference) and dayDifference the difference
\* of the days of the month; 500 at 24% from 2024-01-01 to 2024-04-01 is 360.00.
C7_MonthlyInterest ==
    \A i \in 1..Len(bills) :
      Shown(i) /\ bills[i].interest_type = "monthly" /\ ~JsFalsy(bills[i].interest_rate) =>
        LET from == CivilFromDays(bills[i].bill_date)
            to == CivilFromDays(DayOf(now))
            wholeMonths == 12 * (to.y - from.y) + (to.m - from.m)
            dayDifference == to.d - from.d
        IN  /\ DetailsInterest(i) =
                 Round(DetailsBalance(i) * Val(bills[i].interest_rate)
                         * (30 * wholeMonths + dayDifference) * Cents, 100 * 30)
            /\ ( /\ DetailsBalance(i) = 500
                 /\ bills[i].interest_rate = Some(24)
                 /\ bills[i].bill_date = DaysFromCivil(2024, 1, 1)
                 /\ DayOf(now) = DaysFromCivil(2024, 4, 1) )
               => DetailsInterest(i) = 360 * Cents

C7_Witness ==
    /\ Shown(1)
    /\ bills[1].interest_type = "monthly"
    /\ bills[1].interest_rate = Some(24)
    /\ bills[1].bill_date = DaysFromCivil(2024, 1, 1)
    /\ DayOf(now) = DaysFromCivil(2024, 4, 1)
    /\ rendered.rows[1] = [id |-> 1, balance |-> 500, interest |-> 36000]

\* C8: every interest amount is rounded to 2 decimals before it is shown or
\* added into an amount due.  (calculateInterest's result is a number of
\* hundredths; the amounts of BillReminders are numerators over InterestDen.)
C8_InterestRoundedToCents ==
    \A i \in 1..Len(db_bills) : Listed(i) /\ Due(i) =>
      /\ RemInterest(i) % (InterestDen \div Cents) = 0
      /\ \A k \in 1..Len(RemRow(i)) :
           RemRow(i)[k].amount_due % (InterestDen \div Cents) = 0

\* C9: two evaluations of calculateInterest for the same bill and the same
\* balance show the same amount, whenever they run.
C9_InterestIndependentOfClock ==
    [][ ( /\ screen = "details" /\ screen' = "details"
          /\ bills' = bills /\ transactions' = transactions )
        => \A i \in 1..Len(bills) :
             rendered'.rows[i].interest = rendered.rows[i].interest ]_vars

RECURSIVE SumOfSaleKind(_, _, _)
\* the sum of the amounts of the transactions of a sale that are of a kind
SumOfSaleKind(txs, saleId, kind) ==
    IF txs = <<>> THEN 0
    ELSE (IF txs[1].sale_id = saleId /\ txs[1].transaction_type = kind
            THEN txs[1].amount ELSE 0)
         + SumOfSaleKind(Tail(txs), saleId, kind)

\* sale_amount minus the payments plus the refunds of the stored sale i
OutstandingOfSale(i, txs) ==
    db_sales[i].sale_amount - SumOfSaleKind(txs, db_sales[i].id, "payment")
                            + SumOfSaleKind(txs, db_sales[i].id, "refund")

RECURSIVE OutstandingOfActiveSales(_, _)
\* the sum of OutstandingOfSale over the active sales among the first n
OutstandingOfActiveSales(n, txs) ==
    IF n = 0 THEN 0
    ELSE (IF db_sales[n].is_active THEN OutstandingOfSale(n, txs) ELSE 0)
         + OutstandingOfActiveSales(n - 1, txs)

----------------------------------------------------------------------------
(* The aggregation of MahajanSummary *)

\* the stored bills of a mahajan that a status filter lets through
MatchesFilter(b, mahajanId, filter) ==
    /\ b.mahajan_id = mahajanId
    /\ (filter = "active" => b.is_active)
    /\ (filter = "closed" => ~b.is_active)

\* the keys whose response this step delivers (none when it is no response)
ResolvedKeys ==
    { fetches[i] : i \in { j \in 1..Len(fetches) :
        /\ screen = "summary" /\ screen' = "summary"
        /\ toast' = ""
        /\ fetches' = SubSeq(fetches, 1, j - 1) \o SubSeq(fetches, j + 1, Len(fetches))
        /\ fetches[j] \in DOMAIN cache'
        /\ cache'[fetches[j]] = summaryData' } }

RECURSIVE OwedOnBills(_, _, _)
\* the sum, in hundredths, of balance + accrued interest over those of the
\* first n stored bills that belong to the mahajan and pass the filter; the
\* balance counts the 'payment' and 'principal' transactions
OwedOnBills(n, mahajanId, filter) ==
    IF n = 0 THEN 0
    ELSE (IF MatchesFilter(db_bills[n], mahajanId, filter)
            THEN LET balance == db_bills[n].bill_amount
                                  - SumOfKinds(db_bill_transactions, db_bills[n].id,
                                               {"payment", "principal"})
                 IN  balance * Cents + calculateInterest(db_bills[n], balance, now)
            ELSE 0)
         + OwedOnBills(n - 1, mahajanId, filter)

RECURSIVE OwedOnShownBills(_)
\* the sum, in hundredths, of balance + interest over the first n bills of
\* MahajanDetails
OwedOnShownBills(n) ==
    IF n = 0 THEN 0
    ELSE DetailsBalance(n) * Cents + DetailsInterest(n) + OwedOnShownBills(n - 1)

\* C11: the total outstanding of an account is the sum over its bills of
\* balance + accrued interest, in the rows a query of MahajanSummary delivers
\* and in calculateTotalOutstanding of MahajanDetails.
C11_TotalOutstandingIsBalancePlusInterest ==
    [][ /\ \A key \in ResolvedKeys : \A k \in 1..Len(summaryData') :
             summaryData'[k].outstanding_balance * Cents
               = OwedOnBills(Len(db_bills), summaryData'[k].mahajan_id, key[3])
        /\ (screen' = "details" /\ rendered' # rendered) =>
             rendered'.total = OwedOnShownBills(Len(bills))' ]_vars

\* the payment-kind transactions of the bills of a mahajan that pass the filter
PaymentsOf(mahajanId, filter) ==
    SelectSeq(db_bill_transactions, LAMBDA t :
        /\ t.transaction_type \in {"payment", "principal"}
        /\ \E n \in 1..Len(db_bills) :
             db_bills[n].id = t.bill_id /\ MatchesFilter(db_bills[n], mahajanId, filter))

\* C12: in a row of MahajanSummary last_payment_date is the latest
\* payment_date of the account's payment-kind transactions (absent when there
\* are none), payment_frequency is their number and avg_payment_amount is the
\* total paid divided by that number (0 when it is 0); 'interest'
\* transactions do not count.
C12_PaymentFieldsCountPaymentsOnly ==
    [][ \A key \in ResolvedKeys : \A k \in 1..Len(summaryData') :
          LET row == summaryData'[k]
              payments == PaymentsOf(row.mahajan_id, key[3])
          IN  /\ row.payment_frequency = Len(payments)
              /\ row.last_payment_date =
                   (IF Len(payments) = 0 THEN Null
                    ELSE Some(LatestPaymentDate(payments)))
              /\ row.avg_payment_amount[1] * Len(payments)
                   = (IF Len(payments) = 0 THEN 0
                      ELSE row.total_paid_amount * row.avg_payment_amount[2]) ]_vars

\* the mahajan has no stored bill that passes the filter
NoBills(mahajanId, filter) ==
    \A n \in 1..Len(db_bills) : ~MatchesFilter(db_bills[n], mahajanId, filter)

ZeroStats == [totalBills |-> 0, activeBills |-> 0, totalBillAmount |-> 0,
              totalPaidAmount |-> 0, outstandingBalance |-> 0]

C14_RefreshServesNoOldEntry ==
    [][ ( /\ screen = "summary" /\ screen' = "summary"
          /\ cache # EmptyCache /\ cache' = EmptyCache )
        => /\ Len(fetches') = Len(fetches) + 1
           /\ loading' ]_vars

\* the step appends one row to a table of transactions
Appended(table) == LET t == table IN Len(t') = Len(t) + 1
\* what MahajanDetails shows as owed on bill i, in hundredths
DetailsOwed(i) == DetailsBalance(i) * Cents + DetailsInterest(i)

\* C15: a payment above the obligation's outstanding balance is refused by
\* each payment form: a row that MahajanDetails.handlePaymentSubmit inserts
\* is not above what the page shows as owed on its bill, and a row that
\* RecordSalePaymentDialog.onSubmit inserts is not above what is outstanding
\* on its sale.
C15_OverpaymentRejected ==
    [][ /\ (screen = "details" /\ Appended(db_bill_transactions)) =>
             \A i \in 1..Len(bills) :
                bills[i].id = db_bill_transactions'[Len(db_bill_transactions')].bill_id =>
                   db_bill_transactions'[Len(db_bill_transactions')].amount * Cents
                      <= DetailsOwed(i)
        /\ Appended(db_sale_transactions) =>
             \A i \in 1..Len(db_sales) :
                db_sales[i].id = db_sale_transactions'[Len(db_sale_transactions')].sale_id =>
                   db_sale_transactions'[Len(db_sale_transactions')].amount
                      <= OutstandingOfSale(i, db_sale_transactions) ]_vars

AppendOnly(table) ==
    LET t == table
    IN  \/ t' = t
        \/ Len(t') = Len(t) + 1 /\ SubSeq(t', 1, Len(t)) = t

\* C18: transactions are append-only: every step of the payment forms, of
\* handleSetDueDate and of the fetches leaves bill_transactions and
\* sale_transactions as they are or inserts one new row; no row is updated
\* or deleted.
C18_TransactionsAppendOnly ==
    [][AppendOnly(db_bill_transactions) /\ AppendOnly(db_sale_transactions)]_vars

\* a payment was recorded, then a due date was set and the reminders fetched again
C18_Witness ==
    /\ screen = "reminders"
    /\ Len(db_bill_transactions) >= 1
    /\ toast = "Due date updated successfully"

\* C19: handleSetDueDate, the one writer of bills here, changes the due_date
\* of the selected bill to the date of the dialog and nothing else: the other
\* fields of that bill, every other bill and every transaction stay as they
\* are; without a selected bill or with an empty date nothing is written.
C19_SetDueDateChangesDueDateOnly ==
    [][ /\ db_bills' # db_bills =>
             /\ ~IsNull(selectedBillForDueDate) /\ ~IsNull(newDueDate)
             /\ Len(db_bills') = Len(db_bills)
             /\ \A i \in 1..Len(db_bills) :
                  /\ db_bills'[i].id = db_bills[i].id
                  /\ db_bills'[i].bill_amount = db_bills[i].bill_amount
                  /\ db_bills'[i].interest_rate = db_bills[i].interest_rate
                  /\ db_bills'[i].interest_type = db_bills[i].interest_type
                  /\ db_bills'[i].bill_date = db_bills[i].bill_date
                  /\ db_bills'[i].is_active = db_bills[i].is_active
                  /\ db_bills'[i].due_date =
                       IF db_bills[i].id = Val(selectedBillForDueDate)
                         THEN newDueDate ELSE db_bills[i].due_date
             /\ db_bill_transactions' = db_bill_transactions
             /\ db_sale_transactions' = db_sale_transactions
        /\ (screen = "reminders"
              /\ (IsNull(selectedBillForDueDate) \/ IsNull(newDueDate))) =>
             /\ db_bills' = db_bills
             /\ db_bill_transactions' = db_bill_transactions ]_vars

\* the due date of the second bill was moved to an earlier day
C19_Witness ==
    /\ screen = "reminders"
    /\ toast = "Due date updated successfully"
    /\ db_bills[2].due_date = Some(DaysFromCivil(2024, 1, 1))
    /\ db_bills[2].is_active

\* C20: a failed query leaves no partial result: when fetchReminders fails
\* the reminders list keeps its value, when fetchSummaryData fails
\* summaryData and the cache keep theirs; the error notification is raised
\* and no query is issued in its place.
C20_FailedQueryKeepsState ==
    [][ /\ (OpenReminders_FetchFails \/ SelectDate_FetchFails) =>
             toast' = "Failed to fetch bill reminders"
        /\ toast' = "Failed to fetch bill reminders" => reminders' = reminders
        /\ fetchSummaryData_Fail =>
             /\ toast' = "Failed to fetch mahajan summary data"
             /\ Len(fetches') = Len(fetches) - 1
        /\ toast' = "Failed to fetch mahajan summary data" =>
             /\ summaryData' = summaryData
             /\ cache' = cache
             /\ Len(fetches') <= Len(fetches) ]_vars

\* a fetch of the reminders failed while bills were listed, and they still are
C20_Witness ==
    /\ screen = "reminders"
    /\ toast = "Failed to fetch bill reminders"
    /\ reminders # <<>>

\* C24: each time the dialog of a session goes from closed to open,
\* fetchCustomerSales runs: the sales list that onSubmit validates against is
\* then the one computed from the sales and transactions stored at that time.
C24_SalesFetchedOnEveryOpen ==
    [][ \A s \in Sessions :
          (~dialog[s].open /\ dialog'[s].open) =>
             dialog'[s].sales
               = fetchCustomerSales(db_sales, db_sale_transactions, dialog[s].sales) ]_vars

\* session s takes a step of its submission after the insert
AfterInsertStep(s) == submit[s].pc # "idle" /\ submit'[s].pc # submit[s].pc

BillsOf(mahajanId, filter) ==
    SelectSeq(db_bills, LAMBDA b : MatchesFilter(b, mahajanId, filter))
TransactionsOf(mahajanId, filter) ==
    SelectSeq(db_bill_transactions, LAMBDA t :
        \E n \in 1..Len(db_bills) :
           db_bills[n].id = t.bill_id /\ MatchesFilter(db_bills[n], mahajanId, filter))
\* the last payment of these transactions lies within the range of the key
PaidWithin(txs, key) ==
    /\ Len(txs) > 0
    /\ LatestPaymentDate(txs) >= Val(key[1])
    /\ LatestPaymentDate(txs) <= Val(key[2])
\* what C30 says of the list a query under key delivered, the bills of a
\* mahajan being those that pass filter
RangeRows(key, filter) ==
    /\ \A m \in 1..Len(db_mahajans) :
         (\E k \in 1..Len(summaryData') : summaryData'[k].mahajan_id = db_mahajans[m])
           <=> PaidWithin(TransactionsOf(db_mahajans[m], filter), key)
    /\ \A k \in 1..Len(summaryData') :
         LET row == summaryData'[k]
         IN  /\ row.total_bills = Len(BillsOf(row.mahajan_id, filter))
             /\ row.total_bill_amount = SumBillAmounts(BillsOf(row.mahajan_id, filter))
             /\ row.total_paid_amount = SumAmounts(TransactionsOf(row.mahajan_id, filter))
             /\ row.outstanding_balance = row.total_bill_amount - row.total_paid_amount
             /\ row.active_bills <= row.total_bills

\* C30 as claimed: with both dates set a mahajan is in the result exactly
\* when it has a transaction and its last payment date is within the range,
\* both ends included; the totals of its row are over all of its bills and
\* transactions; outstanding_balance = total_bill_amount - total_paid_amount
\* and active_bills <= total_bills.
C30_RangeOverAllBills ==
    [][ \A key \in ResolvedKeys :
          (~IsNull(key[1]) /\ ~IsNull(key[2])) => RangeRows(key, "all") ]_vars

\* C30 as amended: the same, the bills and transactions of a mahajan being
\* those of its bills that pass the status filter of the query.
C30_RangeOverFilteredBills ==
    [][ \A key \in ResolvedKeys :
          (~IsNull(key[1]) /\ ~IsNull(key[2])) => RangeRows(key, key[3]) ]_vars

\* a list fetched for a date range shows a mahajan whose last payment was made
\* on the start date, its total counting an earlier payment too
C30_Witness ==
    /\ screen = "summary"
    /\ \E key \in DOMAIN cache :
         /\ ~IsNull(key[1]) /\ ~IsNull(key[2])
         /\ cache[key] = summaryData
         /\ Len(summaryData) = 1
         /\ summaryData[1].last_payment_date = key[1]
         /\ summaryData[1].total_paid_amount = 800

----------------------------------------------------------------------------
(* The rows of BillReminders *)

\* the stored bill a row of the list was computed from
BillOfRow(table, r) == table[CHOOSE i \in 1..Len(table) : table[i].id = r.id]

\* the row r is the row of an active bill that is due on the day, with the
\* balance and the amount due of that day
RowHolds(table, txs, r, day) ==
    LET b == BillOfRow(table, r)
        totalPaid == SumOfKinds(txs, r.id, {"payment", "principal"})
        totalInterestPaid == SumOfKinds(txs, r.id, {"interest"})
        interest == ReminderInterest(b, r.outstanding_balance, day)
    IN  /\ b.is_active
        /\ ~IsNull(b.due_date)
        /\ Val(b.due_date) <= day
        /\ r.outstanding_balance = b.bill_amount - totalPaid
        /\ r.outstanding_balance > 0
        /\ r.amount_due = r.outstanding_balance * InterestDen
                            + Max(0, interest - totalInterestPaid * InterestDen)
        /\ r.amount_due >= r.outstanding_balance * InterestDen

ListHolds(table, txs, rows, day) ==
    /\ \A k \in 1..Len(rows) : RowHolds(table, txs, rows[k], day)
    /\ remindersTotalDue(rows) >= remindersTotalOutstanding(rows) * InterestDen

\* C26 as stated: every row of the list that is shown is the row of an active
\* bill due on or before the selected date, with outstanding_balance =
\* bill_amount - totalPaid > 0 and amount_due = outstanding_balance +
\* max(0, interest - totalInterestPaid) >= outstanding_balance, and
\* totalDue >= totalOutstanding.
C26_RowsDueBySelectedDate ==
    (screen = "reminders" /\ ~loading) =>
       ListHolds(db_bills, db_bill_transactions, reminders, DayOf(selectedDate))

\* C26, amended: the list a fetch delivers holds these for the date the fetch
\* was issued for, which a later selection may have replaced.
C26_RowsDueByFetchedDate ==
    [][ (screen' = "reminders" /\ reminders' # reminders) =>
          \E i \in 1..Len(fetches) :
             /\ fetches' = RemoveAt(fetches, i)
             /\ ListHolds(db_bills', db_bill_transactions', reminders', DayOf(fetches[i])) ]_vars

\* a row is shown whose interest payments exceed the interest accrued
C26_Witness ==
    /\ screen = "reminders"
    /\ ~loading
    /\ \E k \in 1..Len(reminders) :
         LET r == reminders[k]
         IN  /\ SumOfKinds(db_bill_transactions, r.id, {"interest"}) * InterestDen
                  > ReminderInterest(BillOfRow(db_bills, r), r.outstanding_balance,
                                     DayOf(selectedDate))
             /\ ReminderInterest(BillOfRow(db_bills, r), r.outstanding_balance,
                                 DayOf(selectedDate)) > 0
             /\ r.amount_due = r.outstanding_balance * InterestDen

----------------------------------------------------------------------------
(* Fetches in flight *)

\* this step is the end of the i-th call in flight, the others stay in flight
Resolves(i) == i \in 1..Len(fetches) /\ fetches' = RemoveAt(fetches, i)

\* this step starts a call and leaves those in flight alone
Issues == Len(fetches') = Len(fetches) + 1 /\ SubSeq(fetches', 1, Len(fetches)) = fetches

\* C21: while the page stays mounted no call in flight is cancelled (a step
\* adds one call or ends one call), and the response of every call, the last
\* one included, replaces the displayed list by the result for the filter or
\* date of that call unless that call failed.
C21_LastResponseWins ==
    [][ screen' = screen =>
          /\ fetches' # fetches => (Issues \/ \E i \in 1..Len(fetches) : Resolves(i))
          /\ (screen = "reminders" /\ Len(fetches') < Len(fetches)) =>
               \E i \in 1..Len(fetches) :
                  /\ Resolves(i)
                  /\ \/ reminders' = fetchReminders(db_bills, db_bill_transactions, fetches[i])
                     \/ /\ toast' = "Failed to fetch bill reminders"
                        /\ reminders' = reminders
          /\ (screen = "summary" /\ Len(fetches') < Len(fetches)) =>
               \E i \in 1..Len(fetches) :
                  /\ Resolves(i)
                  /\ \/ summaryData' = SummaryResult(db_mahajans, db_bills,
                                                     db_bill_transactions, fetches[i])
                     \/ /\ toast' = "Failed to fetch mahajan summary data"
                        /\ summaryData' = summaryData ]_vars

\* two calls were in flight, both were answered, and the list shown is not
\* the list of the selected date
C21_Witness ==
    /\ screen = "reminders"
    /\ fetches = <<>>
    /\ ~loading
    /\ toast = ""
    /\ reminders # fetchReminders(db_bills, db_bill_transactions, selectedDate)

----------------------------------------------------------------------------
(* The cache of MahajanSummary *)

\* the key of the filters the page shows
CurrentKey == CacheKey(dateFrom, dateTo, billStatusFilter)

\* C23: an entry of the cache appears or changes only when the response of a
\* call in flight with that key arrives without an error, and it is the
\* result for the range and status of that key; a call whose key is in the
\* cache sends no query, and the status select then shows the stored entry.
C23_CacheKeyedByFilter ==
    [][ (screen = "summary" /\ screen' = "summary") =>
          /\ \A k \in DOMAIN cache' :
               (k \notin DOMAIN cache \/ cache'[k] # cache[k]) =>
                  /\ \E i \in 1..Len(fetches) : Resolves(i) /\ fetches[i] = k
                  /\ cache'[k] = SummaryResult(db_mahajans, db_bills,
                                                db_bill_transactions, k)
                  /\ toast' # "Failed to fetch mahajan summary data"
          /\ toast' = "Failed to fetch mahajan summary data" => cache' = cache
          /\ Issues => fetches'[Len(fetches')] \notin DOMAIN cache
          /\ (billStatusFilter' # billStatusFilter /\ CurrentKey' \in DOMAIN cache) =>
               /\ fetches' = fetches
               /\ summaryData' = cache[CurrentKey'] ]_vars

\* two entries are stored, no call is in flight, and the entry shown is the
\* one of another status than the selected one: its response came last
C23_Witness ==
    /\ screen = "summary"
    /\ fetches = <<>>
    /\ toast = ""
    /\ CurrentKey \in DOMAIN cache
    /\ \E k \in DOMAIN cache :
         /\ k[1] = dateFrom /\ k[2] = dateTo /\ k[3] # billStatusFilter
         /\ summaryData = cache[k]
         /\ cache[k] # cache[CurrentKey]
         /\ cache[k] = SummaryResult(db_mahajans, db_bills, db_bill_transactions, k)

----------------------------------------------------------------------------
(* settings_access_password after the script *)

ActivePasswords == { i \in 1..Len(settings_access_password) :
                       settings_access_password[i].is_active }

\* C25: once fix_password_table.sql has run, exactly one row of
\* settings_access_password has is_active = true, whatever the table held
\* before and whether or not a profile matches the e-mail.
C25_ExactlyOneActivePassword ==
    script = "done" => Cardinality(ActivePasswords) = 1

----------------------------------------------------------------------------
(* handlePaymentSubmit of MahajanDetails, path by path *)

\* an insert of handlePaymentSubmit is in flight
Submitting == screen = "details" /\ fetches # <<>>

\* the amount field holds a positive number
PaymentAmountValid ==
    /\ ~isNaN(parseFloat(paymentData.amount))
    /\ Val(parseFloat(paymentData.amount)) > 0

\* C27: an insert is sent only with a bill selected and a positive amount,
\* and sending it changes neither the table nor the form, dialog or selection
\* (nor does the toast of an invalid amount); a failed insert leaves the
\* table, the form, the dialog and the selection as they are; a successful
\* one adds the row, resets the form, closes the dialog, clears the selection
\* and re-fetches the transactions; and loading is false whenever no insert
\* is in flight.
C27_PaymentSubmitPaths ==
    [][ (screen = "details" /\ screen' = "details") =>
          /\ (~Submitting /\ Submitting') =>
               /\ ~IsNull(selectedBillId)
               /\ PaymentAmountValid
               /\ loading'
               /\ UNCHANGED <<paymentVars, db_bill_transactions>>
          /\ (~Submitting /\ (IsNull(selectedBillId) \/ ~PaymentAmountValid)) =>
               /\ ~Submitting'
               /\ db_bill_transactions' = db_bill_transactions
          /\ (toast' = "Invalid Amount" /\ toast # "Invalid Amount") =>
               UNCHANGED <<paymentVars, db_bill_transactions, loading, fetches>>
          /\ (Submitting /\ ~Submitting' /\ db_bill_transactions' = db_bill_transactions) =>
               /\ toast' = "Failed to record payment"
               /\ UNCHANGED <<paymentVars, transactions>>
          /\ db_bill_transactions' # db_bill_transactions =>
               /\ Submitting
               /\ db_bill_transactions' = Append(db_bill_transactions, fetches[1])
               /\ paymentData' = BlankPaymentData
               /\ ~showPaymentDialog'
               /\ IsNull(selectedBillId')
               /\ \/ transactions' = fetchTransactions(db_bill_transactions', bills)
                  \/ toast' = "Failed to fetch transactions"
          /\ ~Submitting' => ~loading' ]_vars

\* after one payment was recorded, the insert of a second one has failed: the
\* dialog is open with its bill and its amount
C27_Witness ==
    /\ screen = "details"
    /\ Len(db_bill_transactions) = 1
    /\ toast = "Failed to record payment"
    /\ showPaymentDialog
    /\ ~IsNull(selectedBillId)
    /\ PaymentAmountValid
    /\ ~loading

----------------------------------------------------------------------------
(* Deleting cheques *)

\* the ids of the stored cheques
ChequeIds(table) == { table[i].id : i \in 1..Len(table) }

\* C28: the delete dialog opens only on a cheque listed with a status other
\* than 'cleared'; a cheque that leaves the table is not 'cleared' in the
\* table when it is deleted, and then fetchCheques is called and the
\* selection is cleared; a delete that fails leaves the lists and the
\* selection as they are.
C28_ClearedChequeNeverDeleted ==
    [][ (screen = "cheques" /\ screen' = "cheques") =>
          /\ (~deleteDialogOpen /\ deleteDialogOpen') =>
               Val(selectedCheque').status # "cleared"
          /\ \A i \in 1..Len(db_cheques) :
               db_cheques[i].id \notin ChequeIds(db_cheques') =>
                  /\ db_cheques[i].status # "cleared"
                  /\ IsNull(selectedCheque')
                  /\ Len(fetches') = Len(fetches) + 1
          /\ (deleteDialogOpen /\ ~deleteDialogOpen' /\ toast' = "Error deleting cheque") =>
               UNCHANGED <<db_cheques, receivedCheques, issuedCheques, selectedCheque>> ]_vars

----------------------------------------------------------------------------
(* The loading flags *)

\* a page that fetches on its own is mounted
Fetching == screen \in {"summary", "reminders", "cheques"}

\* C29: on MahajanSummary, BillReminders and Cheques the end of a call of the
\* fetch function, answered or failed, leaves loading false, so does a call
\* of fetchSummaryData that finds its key in the cache, and loading is false
\* whenever no call is in flight.
C29_FetchEndsNotLoading ==
    [][ (Fetching /\ screen' = screen) =>
          /\ (\E i \in 1..Len(fetches) : Resolves(i)) => ~loading'
          /\ (screen = "summary" /\ billStatusFilter' # billStatusFilter
                /\ CurrentKey' \in DOMAIN cache) => ~loading'
          /\ fetches' = <<>> => ~loading' ]_vars

\* the query of fetchCheques has failed and nothing is in flight
C29_Witness ==
    /\ screen = "cheques"
    /\ toast = "Error fetching cheques"
    /\ fetches = <<>>
    /\ ~loading

============================================================================
